---- MODULE Spec2Model ----
(***************************************************************************)
(* TinyKit CDN worker (src/src/index.ts): the request dispatcher `fetch`,  *)
(* the upload flow `handleUpload` / `validateUploadRequest` /              *)
(* `parseJWTToken` / `validateFilePath`, the origin check                  *)
(* `isOriginAllowed`, the cache classification `getCacheConfig` and the    *)
(* conditional-request evaluation of the read flow.                        *)
(*                                                                         *)
(* JavaScript strings that the code takes apart (paths, keys, origins,     *)
(* allowlists) are sequences of one-character strings, so that includes,   *)
(* startsWith, slice, lastIndexOf ... are computed as the code computes    *)
(* them.  Names that are only compared or looked up (app names, secrets,   *)
(* methods, error messages) are TLA+ strings.                              *)
(*                                                                         *)
(* Spec is the worker answering requests against its bucket and edge       *)
(* cache; SpecJWT, SpecCacheConfig, SpecOrigin and SpecUpload apply        *)
(* parseJWTToken, getCacheConfig, the two origin checks and handleUpload   *)
(* to inputs drawn from bounded sets.  The properties C1, C2, ... at the   *)
(* end are stated over these specifications.                               *)
(***************************************************************************)
EXTENDS Integers, Sequences, FiniteSets, TLC

\* ------------------------------------------------------------------------
\* String primitives (ECMAScript String.prototype), on sequences of chars
\* ------------------------------------------------------------------------

\* s.includes(sub)
includes(s, sub) ==
  \E i \in 1..(Len(s) - Len(sub) + 1) :
    \A j \in 1..Len(sub) : s[i + j - 1] = sub[j]

\* s.startsWith(p)
startsWith(s, p) ==
  Len(p) <= Len(s) /\ \A j \in 1..Len(p) : s[j] = p[j]

\* s.endsWith(p)
endsWith(s, p) ==
  Len(p) <= Len(s) /\ \A j \in 1..Len(p) : s[Len(s) - Len(p) + j] = p[j]

\* s.lastIndexOf(c): the 0-based index of the last c, -1 when there is none
RECURSIVE lastIndexBefore(_, _, _)
lastIndexBefore(s, c, i) ==
  IF i = 0 THEN -1
  ELSE IF s[i] = c THEN i - 1
  ELSE lastIndexBefore(s, c, i - 1)

lastIndexOf(s, c) == lastIndexBefore(s, c, Len(s))

\* s.substring(start): a negative start is treated as 0
substring(s, start) ==
  SubSeq(s, (IF start < 0 THEN 0 ELSE start) + 1, Len(s))

\* s.slice(n) for n >= 0
slice(s, n) == SubSeq(s, n + 1, Len(s))

\* s.slice(0, -1)
sliceDropLast(s) == SubSeq(s, 1, Len(s) - 1)

\* The upper-case letters of the model's alphabet and their lower-case forms
lowerChar(c) ==
  CASE c = "P" -> "p"
    [] c = "N" -> "n"
    [] c = "G" -> "g"
    [] c = "T" -> "t"
    [] c = "X" -> "x"
    [] OTHER   -> c

\* s.toLowerCase()
toLowerCase(s) == [i \in 1..Len(s) |-> lowerChar(s[i])]

\* s.trim()
RECURSIVE trimStart(_)
trimStart(s) ==
  IF s # <<>> /\ Head(s) = " " THEN trimStart(Tail(s)) ELSE s

RECURSIVE trimEnd(_)
trimEnd(s) ==
  IF s # <<>> /\ s[Len(s)] = " " THEN trimEnd(SubSeq(s, 1, Len(s) - 1)) ELSE s

trim(s) == trimEnd(trimStart(s))

\* s.split(',') : the pieces between the commas, empty pieces kept
RECURSIVE splitFrom(_, _, _)
splitFrom(s, i, cur) ==
  IF i > Len(s) THEN <<cur>>
  ELSE IF s[i] = "," THEN <<cur>> \o splitFrom(s, i + 1, <<>>)
  ELSE splitFrom(s, i + 1, Append(cur, s[i]))

split(s) == splitFrom(s, 1, <<>>)

\* array.some(pred) over a sequence is written \E i \in DOMAIN arr below.

\* ------------------------------------------------------------------------
\* CONTENT_TYPES and getContentType
\* ------------------------------------------------------------------------

CONTENT_TYPES ==
  ( <<".", "p", "n", "g">>      :> "image/png" ) @@
  ( <<".", "j", "p", "g">>      :> "image/jpeg" ) @@
  ( <<".", "j", "p", "e", "g">> :> "image/jpeg" ) @@
  ( <<".", "g", "i", "f">>      :> "image/gif" ) @@
  ( <<".", "w", "e", "b", "p">> :> "image/webp" ) @@
  ( <<".", "s", "v", "g">>      :> "image/svg+xml" ) @@
  ( <<".", "i", "c", "o">>      :> "image/x-icon" ) @@
  ( <<".", "p", "d", "f">>      :> "application/pdf" ) @@
  ( <<".", "j", "s", "o", "n">> :> "application/json" ) @@
  ( <<".", "x", "m", "l">>      :> "application/xml" ) @@
  ( <<".", "d", "m", "g">>      :> "application/x-apple-diskimage" ) @@
  ( <<".", "z", "i", "p">>      :> "application/zip" ) @@
  ( <<".", "p", "k", "g">>      :> "application/x-newton-compatible-pkg" ) @@
  ( <<".", "m", "p", "4">>      :> "video/mp4" ) @@
  ( <<".", "w", "e", "b", "m">> :> "video/webm" ) @@
  ( <<".", "w", "o", "f", "f">> :> "font/woff" ) @@
  ( <<".", "w", "o", "f", "f", "2">> :> "font/woff2" ) @@
  ( <<".", "t", "t", "f">>      :> "font/ttf" ) @@
  ( <<".", "o", "t", "f">>      :> "font/otf" )

\* Object.keys(CONTENT_TYPES)
contentTypeKeys == DOMAIN CONTENT_TYPES

\* path.substring(path.lastIndexOf('.')).toLowerCase()
extensionOf(path) == toLowerCase(substring(path, lastIndexOf(path, ".")))

getContentType(path) ==
  LET ext == extensionOf(path)
  IN  IF ext \in contentTypeKeys THEN CONTENT_TYPES[ext]
      ELSE "application/octet-stream"


\* ------------------------------------------------------------------------
\* Values the runtime hands to the code
\* ------------------------------------------------------------------------

\* headers.get(name) and an optional env binding: <<>> is null/undefined,
\* <<v>> is the string v.  JavaScript truthiness of such a value:
truthy(h) == h # <<>> /\ h[1] # <<>>

\* The number NaN (parseInt of a string with no leading digits)
NaN == 0 - 1

digitValue(c) ==
  CASE c = "0" -> 0 [] c = "1" -> 1 [] c = "2" -> 2 [] c = "3" -> 3
    [] c = "4" -> 4 [] c = "5" -> 5 [] c = "6" -> 6 [] c = "7" -> 7
    [] c = "8" -> 8 [] c = "9" -> 9 [] OTHER -> NaN

\* parseInt(s): the leading decimal digits, NaN when there are none
RECURSIVE parseDigits(_, _, _)
parseDigits(s, i, acc) ==
  IF i > Len(s) \/ digitValue(s[i]) = NaN THEN acc
  ELSE parseDigits(s, i + 1, 10 * acc + digitValue(s[i]))

parseInt(s) ==
  IF s = <<>> \/ digitValue(s[1]) = NaN THEN NaN ELSE parseDigits(s, 1, 0)

\* a > b on numbers, false when either is NaN
numGT(a, b) == a # NaN /\ b # NaN /\ a > b

\* Math.min(a, b), NaN when either is NaN
mathMin(a, b) ==
  IF a = NaN \/ b = NaN THEN NaN ELSE IF a < b THEN a ELSE b

\* ------------------------------------------------------------------------
\* isOriginAllowed
\* ------------------------------------------------------------------------

\* allowedOrigins.split(',').map((o) => o.trim())
allowedList(allowedOrigins) ==
  LET pieces == split(allowedOrigins)
  IN  [i \in DOMAIN pieces |-> trim(pieces[i])]

\* An isOriginAllowed that consults the Referer only when there is no Origin
isOriginAllowedOriginFirst(request, allowedOrigins) ==
  IF allowedOrigins = <<"*">> THEN TRUE
  ELSE
    LET origin  == request.Origin
        referer == request.Referer
        allowed == allowedList(allowedOrigins)
    IN  IF ~truthy(origin) /\ ~truthy(referer) THEN TRUE
        ELSE IF truthy(origin)
        THEN \E i \in DOMAIN allowed : includes(origin[1], allowed[i])
        ELSE \E i \in DOMAIN allowed : includes(referer[1], allowed[i])

isOriginAllowed(request, allowedOrigins) ==
  IF allowedOrigins = <<"*">> THEN TRUE
  ELSE
    LET origin  == request.Origin
        referer == request.Referer
        allowed == allowedList(allowedOrigins)
    IN  IF ~truthy(origin) /\ ~truthy(referer) THEN TRUE
        ELSE IF truthy(origin)
                /\ \E i \in DOMAIN allowed : includes(origin[1], allowed[i])
             THEN TRUE
        ELSE IF truthy(referer)
                /\ \E i \in DOMAIN allowed : includes(referer[1], allowed[i])
             THEN TRUE
        ELSE FALSE

\* ------------------------------------------------------------------------
\* getCacheConfig
\* ------------------------------------------------------------------------

downloadsSegment == <<"/", "d", "o", "w", "n", "l", "o", "a", "d", "s", "/">>

\* The alternatives of /\.(png|jpg|jpeg|gif|webp|svg|ico|woff|woff2|ttf|otf)$/i
staticSuffixes ==
  { <<".", "p", "n", "g">>, <<".", "j", "p", "g">>, <<".", "j", "p", "e", "g">>,
    <<".", "g", "i", "f">>, <<".", "w", "e", "b", "p">>, <<".", "s", "v", "g">>,
    <<".", "i", "c", "o">>, <<".", "w", "o", "f", "f">>,
    <<".", "w", "o", "f", "f", "2">>, <<".", "t", "t", "f">>,
    <<".", "o", "t", "f">> }

\* path.match(/\.(png|...|otf)$/i): the path ends, ignoring case, in one of
\* the alternatives
matchesStaticAsset(path) ==
  LET lower == toLowerCase(path)
  IN  \E suf \in staticSuffixes : endsWith(lower, suf)

\* A getCacheConfig that tests the extension before /downloads/
getCacheConfigExtensionFirst(path) ==
  IF matchesStaticAsset(path)
  THEN [cacheControl |-> "public, max-age=31536000, immutable",
        cacheTtl |-> 31536000]
  ELSE IF includes(path, downloadsSegment)
  THEN [cacheControl |-> "public, max-age=3600", cacheTtl |-> 3600]
  ELSE [cacheControl |-> "public, max-age=86400", cacheTtl |-> 86400]

getCacheConfig(path) ==
  IF includes(path, downloadsSegment)
  THEN [cacheControl |-> "public, max-age=3600", cacheTtl |-> 3600]
  ELSE IF matchesStaticAsset(path)
  THEN [cacheControl |-> "public, max-age=31536000, immutable",
        cacheTtl |-> 31536000]
  ELSE [cacheControl |-> "public, max-age=86400", cacheTtl |-> 86400]


\* ------------------------------------------------------------------------
\* parseJWTToken
\*
\* A token string is kept as what the code makes of it: the number of
\* pieces token.split('.') yields (0 stands for the empty string), and what
\* decoding each of the three pieces gives.  decodes = FALSE is a piece on
\* which atob or JSON.parse throws.  A JSON field that is absent is "" for
\* appName, kind "absent" for exp, 0 for maxFileSize (the code tests these
\* by truthiness only) and <<>> for the two list fields, <<list>> when
\* present.
\*
\* The signature piece decodes to a MAC value.  HMAC-SHA256 is the ideal MAC:
\* HMAC(k, h, p) is determined by, and determines, the key and the signed
\* text `${parts[0]}.${parts[1]}`.
\* ------------------------------------------------------------------------

HMAC(k, h, p) == [key |-> k, h |-> h, p |-> p]

\* A verify that compares the signed text and ignores the key
cryptoVerifyAnyKey(appSecret, mac, h, p) == mac.h = h /\ mac.p = p

\* crypto.subtle.verify('HMAC', key, signatureArray, data)
cryptoVerify(appSecret, mac, h, p) == mac = HMAC(appSecret, h, p)

\* 365 * 24 * 60 * 60
yearSeconds == 365 * 24 * 60 * 60

\* Math.floor(Date.now() / 1000), Date.now() in milliseconds
nowSeconds(nowMs) == nowMs \div 1000

jwtFail(msg) == [valid |-> FALSE, payload |-> <<>>, error |-> msg]

\* The exp block without its test exp < now
expCheckNoPast(exp, now) ==
  IF exp.kind = "number" /\ exp.num # 0
  THEN IF exp.num > now + yearSeconds
       THEN "Token expiration too far in future"
       ELSE ""
  ELSE "JWT payload must contain exp (expiration time)"

\* The exp block of parseJWTToken, lines 154-170: "" when the token goes on
expCheck(exp, now) ==
  IF exp.kind = "number" /\ exp.num # 0
  THEN IF exp.num < now THEN "Token expired"
       ELSE IF exp.num > now + yearSeconds
       THEN "Token expiration too far in future"
       ELSE ""
  ELSE "JWT payload must contain exp (expiration time)"

\* secrets: what JSON.parse(env.JWT_SECRETS) gave: kind "object" with map, a
\* function from app names to [isString, value]; any other kind is null or a
\* non-object.  nowMs is Date.now().
parseJWTToken(token, secrets, nowMs) ==
  LET payload == token.payload
      header  == token.header
      now     == nowSeconds(nowMs)
  IN
  IF token.nparts = 0 THEN jwtFail("Invalid token format")
  ELSE IF secrets.kind # "object" THEN jwtFail("Invalid secrets configuration")
  ELSE IF token.nparts # 3 THEN jwtFail("Token must be in JWT format")
  ELSE IF ~payload.decodes THEN jwtFail("Failed to parse JWT token")
  ELSE IF payload.appName = ""
  THEN jwtFail("JWT payload must contain valid appName")
  ELSE IF payload.appName \notin DOMAIN secrets.map
          \/ secrets.map[payload.appName].value = ""
  THEN jwtFail("No JWT secret configured for app")
  ELSE IF ~secrets.map[payload.appName].isString
  THEN jwtFail("Invalid secret configured for app")
  ELSE IF expCheck(payload.exp, now) # "" THEN jwtFail(expCheck(payload.exp, now))
  ELSE IF ~header.decodes THEN jwtFail("Failed to parse JWT token")
  ELSE IF header.typ # "JWT" \/ header.alg # "HS256"
  THEN jwtFail("Invalid JWT format or algorithm (only HS256 supported)")
  ELSE IF ~token.signature.decodes THEN jwtFail("Invalid signature encoding")
  ELSE IF ~cryptoVerify(secrets.map[payload.appName].value,
                        token.signature.mac, header, payload)
  THEN jwtFail("Invalid JWT signature")
  ELSE [valid |-> TRUE, payload |-> <<payload>>, error |-> ""]

\* ------------------------------------------------------------------------
\* validateUploadRequest
\* ------------------------------------------------------------------------

bearerPrefix == <<"B", "e", "a", "r", "e", "r", " ">>

\* A pathAllowed that takes every pattern ending in "*" as a prefix pattern
pathAllowedAnyStar(allowedPaths, key) ==
  \E i \in DOMAIN allowedPaths :
    LET pattern == allowedPaths[i]
    IN  IF pattern = <<"*">> THEN TRUE
        ELSE IF endsWith(pattern, <<"*">>)
        THEN startsWith(key, sliceDropLast(pattern))
        ELSE key = pattern

\* tokenData.allowedPaths.some(pattern => ...), lines 289-295
pathAllowed(allowedPaths, key) ==
  \E i \in DOMAIN allowedPaths :
    LET pattern == allowedPaths[i]
    IN  IF pattern = <<"*">> THEN TRUE
        ELSE IF endsWith(pattern, <<"/", "*">>)
        THEN startsWith(key, sliceDropLast(pattern))
        ELSE key = pattern

\* allowedPaths.includes('*') on the array
listIncludes(list, x) == \E i \in DOMAIN list : list[i] = x

uploadFail(msg) == [valid |-> FALSE, error |-> msg, tokenData |-> <<>>]

\* An origin block that applies isOriginAllowed to the upload allowlist
uploadOriginCheckLikeReads(request, env) ==
  IF truthy(env.UPLOAD_ALLOWED_ORIGINS)
  THEN IF isOriginAllowed(request, env.UPLOAD_ALLOWED_ORIGINS[1]) THEN ""
       ELSE "Origin not allowed for uploads"
  ELSE ""

\* The origin block of validateUploadRequest, lines 233-250: "" when passed
uploadOriginCheck(request, env) ==
  IF truthy(env.UPLOAD_ALLOWED_ORIGINS)
  THEN LET origin  == request.Origin
           referer == request.Referer
           allowed == allowedList(env.UPLOAD_ALLOWED_ORIGINS[1])
       IN  IF ~truthy(origin) /\ ~truthy(referer)
           THEN "Origin verification failed"
           ELSE IF (truthy(origin)
                    /\ \E i \in DOMAIN allowed : includes(origin[1], allowed[i]))
                   \/ (truthy(referer)
                       /\ \E i \in DOMAIN allowed : includes(referer[1], allowed[i]))
           THEN ""
           ELSE "Origin not allowed for uploads"
  ELSE ""

\* A validateUploadRequest that reads the token's payload without verifying
\* the token
validateUploadRequestUnverified(request, env, key, nowMs) ==
  LET auth == request.Authorization
  IN  IF auth = <<>> THEN uploadFail("Missing or invalid authorization header")
      ELSE [valid |-> TRUE, error |-> "", tokenData |-> <<auth[1].token.payload>>]

\* request.Authorization: <<>> when the header is absent, else
\* <<[first7, token]>>: the header's first seven characters (fewer when it is
\* shorter) and authHeader.substring(7) as a token.
validateUploadRequest(request, env, key, nowMs) ==
  LET auth == request.Authorization
  IN
  IF uploadOriginCheck(request, env) # ""
  THEN uploadFail(uploadOriginCheck(request, env))
  ELSE IF auth = <<>> \/ ~startsWith(auth[1].first7, bearerPrefix)
  THEN uploadFail("Missing or invalid authorization header")
  ELSE IF ~env.JWT_SECRETS.set THEN uploadFail("JWT_SECRETS must be configured")
  ELSE IF env.JWT_SECRETS.kind = "malformed"
  THEN uploadFail("Invalid JWT_SECRETS configuration")
  ELSE
    LET tokenResult == parseJWTToken(auth[1].token, env.JWT_SECRETS, nowMs)
    IN
    IF ~tokenResult.valid THEN uploadFail(tokenResult.error)
    ELSE
      LET tokenData == tokenResult.payload[1]
          now       == nowSeconds(nowMs)
      IN
      IF tokenData.exp.kind = "number" /\ tokenData.exp.num # 0
         /\ tokenData.exp.num < now
      THEN uploadFail("Token expired")
      ELSE IF tokenData.allowedPaths # <<>>
              /\ ~listIncludes(tokenData.allowedPaths[1], <<"*">>)
              /\ ~pathAllowed(tokenData.allowedPaths[1], key)
      THEN uploadFail("Path not allowed for token")
      ELSE [valid |-> TRUE, error |-> "", tokenData |-> <<tokenData>>]

\* ------------------------------------------------------------------------
\* validateFilePath
\* ------------------------------------------------------------------------

\* 500, the longest key validateFilePath accepts
maxKeyLength == 500

\* A validateFilePath without the test for '//'
validateFilePathNoDoubleSlash(key) ==
  IF includes(key, <<".", ".">>) \/ startsWith(key, <<"/">>)
  THEN [valid |-> FALSE, error |-> "Invalid file path"]
  ELSE IF extensionOf(key) \notin contentTypeKeys
  THEN [valid |-> FALSE, error |-> "File type not allowed"]
  ELSE [valid |-> TRUE, error |-> ""]

validateFilePath(key) ==
  IF includes(key, <<".", ".">>) \/ includes(key, <<"/", "/">>)
     \/ startsWith(key, <<"/">>)
  THEN [valid |-> FALSE, error |-> "Invalid file path"]
  ELSE IF extensionOf(key) \notin contentTypeKeys
  THEN [valid |-> FALSE, error |-> "File type not allowed"]
  ELSE IF Len(key) > maxKeyLength
  THEN [valid |-> FALSE, error |-> "File path too long"]
  ELSE [valid |-> TRUE, error |-> ""]


\* ------------------------------------------------------------------------
\* Responses
\*
\* One record shape for every Response the worker builds.  body is a plain-
\* text body or names the JSON body; error/code/success and the data fields
\* are the members of a JSON body; the header fields are "" / <<>> / NaN
\* when the header is not set; data is <<>> for a null body and <<bytes>>
\* for an object's content.
\* ------------------------------------------------------------------------

noResponse ==
  [ status |-> 0, body |-> "", error |-> "", code |-> "", success |-> FALSE,
    key |-> <<>>, size |-> NaN, contentType |-> "", url |-> <<>>, app |-> "",
    ContentType |-> "", CacheControl |-> "", CDNCacheControl |-> "",
    ETag |-> <<>>, LastModified |-> NaN, ContentLength |-> NaN,
    AccessControlAllowOrigin |-> <<>>, AccessControlAllowMethods |-> "",
    AccessControlAllowHeaders |-> "", AccessControlMaxAge |-> "",
    XContentTypeOptions |-> "", XCacheStatus |-> "",
    ContentDisposition |-> <<>>, data |-> <<>> ]

\* new Response(text, { status })
textResponse(status, text) ==
  [noResponse EXCEPT !.status = status, !.body = text]

\* new Response(JSON.stringify({ error, code }), { status, headers })
\* (an error message is kept without the values interpolated into it)
jsonError(status, error, code) ==
  [noResponse EXCEPT !.status = status, !.body = "json", !.error = error,
                     !.code = code, !.ContentType = "application/json"]

\* ------------------------------------------------------------------------
\* handleUpload
\* ------------------------------------------------------------------------

\* '104857600', the default of env.MAX_FILE_SIZE in handleUpload
defaultMaxFileSize == <<"1", "0", "4", "8", "5", "7", "6", "0", "0">>

\* "/upload/"
uploadPrefix == <<"/", "u", "p", "l", "o", "a", "d", "/">>

\* url.pathname.slice(9)
uploadKey(pathname) == slice(pathname, 9)

\* A size limit without the default of env.MAX_FILE_SIZE: the token's
\* maxFileSize alone, or none (NaN), when MAX_FILE_SIZE is unset
uploadMaxSizeNoDefault(env, tokenData) ==
  IF truthy(env.MAX_FILE_SIZE)
  THEN IF tokenData # <<>> /\ tokenData[1].maxFileSize # 0
       THEN mathMin(parseInt(env.MAX_FILE_SIZE[1]), tokenData[1].maxFileSize)
       ELSE parseInt(env.MAX_FILE_SIZE[1])
  ELSE IF tokenData # <<>> /\ tokenData[1].maxFileSize # 0
  THEN tokenData[1].maxFileSize
  ELSE NaN

\* lines 364-368: the size limit of an upload
uploadMaxSize(env, tokenData) ==
  LET maxSize == parseInt(IF truthy(env.MAX_FILE_SIZE) THEN env.MAX_FILE_SIZE[1]
                          ELSE defaultMaxFileSize)
  IN  IF tokenData # <<>> /\ tokenData[1].maxFileSize # 0
      THEN mathMin(maxSize, tokenData[1].maxFileSize)
      ELSE maxSize

\* lines 405-422: TRUE when the token's allowedExtensions rejects the key
extensionRejected(tokenData, key) ==
  /\ tokenData # <<>>
  /\ tokenData[1].allowedExtensions # <<>>
  /\ ~listIncludes(tokenData[1].allowedExtensions[1], extensionOf(key))

\* The object R2 holds after put(key, fileData, {httpMetadata}): its strong
\* validator is determined by, and determines, the content.
httpEtagOf(bytes) == <<"\"">> \o bytes \o <<"\"">>

\* A put that stores the content less its last byte
r2ObjectTruncated(bytes, contentType, nowMs) ==
  [ body |-> SubSeq(bytes, 1, Len(bytes) - 1), size |-> Len(bytes) - 1,
    contentType |-> contentType,
    httpEtag |-> httpEtagOf(SubSeq(bytes, 1, Len(bytes) - 1)),
    uploaded |-> nowMs ]

r2Object(bytes, contentType, nowMs) ==
  [ body |-> bytes, size |-> Len(bytes), contentType |-> contentType,
    httpEtag |-> httpEtagOf(bytes), uploaded |-> nowMs ]

\* A catch block of handleUpload that answers 400
uploadErrorResponseBadRequest ==
  [noResponse EXCEPT !.status = 400, !.body = "json", !.error = "Upload failed",
                     !.code = "UPLOAD_ERROR", !.ContentType = "application/json"]

uploadErrorResponse ==
  [noResponse EXCEPT !.status = 500, !.body = "json", !.error = "Upload failed",
                     !.code = "UPLOAD_ERROR", !.ContentType = "application/json"]

\* A handleUpload that tests the token's allowedExtensions before the sizes
handleUploadExtensionFirst(request, env, nowMs, r2ok) ==
  LET key        == uploadKey(request.pathname)
      validation == validateUploadRequest(request, env, key, nowMs)
      pathValidation == validateFilePath(key)
      maxSize    == uploadMaxSize(env, validation.tokenData)
      contentLength == request.ContentLength
      fileData   == request.body
      detectedContentType == getContentType(key)
      none(r)    == [response |-> r, put |-> <<>>]
  IN
  IF ~validation.valid
  THEN none(jsonError(401, validation.error, "UNAUTHORIZED"))
  ELSE IF ~pathValidation.valid
  THEN none(jsonError(400, pathValidation.error, "INVALID_PATH"))
  ELSE IF extensionRejected(validation.tokenData, key)
  THEN none(jsonError(400, "File extension not allowed", "EXTENSION_NOT_ALLOWED"))
  ELSE IF truthy(contentLength) /\ numGT(parseInt(contentLength[1]), maxSize)
  THEN none(jsonError(413, "File too large", "FILE_TOO_LARGE"))
  ELSE IF numGT(Len(fileData), maxSize)
  THEN none(jsonError(413, "File too large", "FILE_TOO_LARGE"))
  ELSE IF ~r2ok THEN none(uploadErrorResponse)
  ELSE
    [ response |->
        [noResponse EXCEPT !.status = 200, !.body = "json", !.success = TRUE,
           !.key = key, !.size = Len(fileData),
           !.contentType = detectedContentType, !.url = <<"/">> \o key,
           !.app = validation.tokenData[1].appName,
           !.ContentType = "application/json",
           !.AccessControlAllowOrigin = << <<"*">> >>],
      put |-> << [key |-> key,
                  object |-> r2Object(fileData, detectedContentType, nowMs)] >> ]

\* r2ok: whether CDN_BUCKET.put resolves; when it rejects, the catch block
\* answers 500.  The result is the response and put:
\* <<>> or <<[key, object]>>, the write to the bucket.
handleUpload(request, env, nowMs, r2ok) ==
  LET key        == uploadKey(request.pathname)
      validation == validateUploadRequest(request, env, key, nowMs)
      pathValidation == validateFilePath(key)
      maxSize    == uploadMaxSize(env, validation.tokenData)
      contentLength == request.ContentLength
      fileData   == request.body
      detectedContentType == getContentType(key)
      none(r)    == [response |-> r, put |-> <<>>]
  IN
  IF ~validation.valid
  THEN none(jsonError(401, validation.error, "UNAUTHORIZED"))
  ELSE IF ~pathValidation.valid
  THEN none(jsonError(400, pathValidation.error, "INVALID_PATH"))
  ELSE IF truthy(contentLength) /\ numGT(parseInt(contentLength[1]), maxSize)
  THEN none(jsonError(413, "File too large", "FILE_TOO_LARGE"))
  ELSE IF numGT(Len(fileData), maxSize)
  THEN none(jsonError(413, "File too large", "FILE_TOO_LARGE"))
  ELSE IF extensionRejected(validation.tokenData, key)
  THEN none(jsonError(400, "File extension not allowed", "EXTENSION_NOT_ALLOWED"))
  ELSE IF ~r2ok THEN none(uploadErrorResponse)
  ELSE
    [ response |->
        [noResponse EXCEPT !.status = 200, !.body = "json", !.success = TRUE,
           !.key = key, !.size = Len(fileData),
           !.contentType = detectedContentType, !.url = <<"/">> \o key,
           !.app = validation.tokenData[1].appName,
           !.ContentType = "application/json",
           !.AccessControlAllowOrigin = << <<"*">> >>],
      put |-> << [key |-> key,
                  object |-> r2Object(fileData, detectedContentType, nowMs)] >> ]


\* ------------------------------------------------------------------------
\* The read flow of fetch (lines 515-688)
\*
\* An HTTP date (If-Modified-Since, Last-Modified) is the whole second it
\* names: toUTCString drops the milliseconds of a Date, new Date(text) gives
\* the second's first millisecond, and NaN for text that is no date.
\* ------------------------------------------------------------------------

\* date.toUTCString()
toUTCString(ms) == ms \div 1000

\* new Date(text).getTime()
dateGetTime(httpDate) == IF httpDate = NaN THEN NaN ELSE httpDate * 1000

\* key.split('/').pop()
lastSegment(key) == substring(key, lastIndexOf(key, "/") + 1)

\* lines 573-583
notModifiedByETag(object, key) ==
  [noResponse EXCEPT !.status = 304, !.ETag = <<object.httpEtag>>,
     !.CacheControl = getCacheConfig(key).cacheControl,
     !.LastModified = toUTCString(object.uploaded)]

\* lines 592-599
notModifiedByDate(object, key) ==
  [noResponse EXCEPT !.status = 304,
     !.CacheControl = getCacheConfig(key).cacheControl,
     !.LastModified = toUTCString(object.uploaded)]

\* lines 621-627: the CDN-Cache-Control header, "" when it is not set
cdnCacheControl(key) ==
  IF matchesStaticAsset(key) THEN "public, max-age=31536000, immutable"
  ELSE IF ~includes(key, downloadsSegment) THEN "public, max-age=86400"
  ELSE ""

\* lines 603-662: the headers of a full response
fullHeaders(request, allowedOrigins, object, key) ==
  [noResponse EXCEPT
     !.status = 200,
     !.ContentType = IF object.contentType # "" THEN object.contentType
                     ELSE getContentType(key),
     !.CacheControl = getCacheConfig(key).cacheControl,
     !.CDNCacheControl = cdnCacheControl(key),
     !.AccessControlAllowOrigin =
        IF truthy(request.Origin)
        THEN (IF allowedOrigins = <<"*">> THEN << <<"*">> >> ELSE request.Origin)
        ELSE <<>>,
     !.AccessControlAllowMethods =
        IF truthy(request.Origin) THEN "GET, HEAD, OPTIONS" ELSE "",
     !.AccessControlMaxAge = IF truthy(request.Origin) THEN "86400" ELSE "",
     !.ETag = IF object.httpEtag # <<>> THEN <<object.httpEtag>> ELSE <<>>,
     !.ContentLength = object.size,
     !.LastModified = toUTCString(object.uploaded),
     !.XContentTypeOptions = "nosniff",
     !.XCacheStatus = "MISS",
     !.ContentDisposition =
        IF includes(key, downloadsSegment) THEN <<lastSegment(key)>> ELSE <<>>]

\* lines 563-566: the read size limit, TRUE when the object exceeds it
readTooLarge(env, object) ==
  LET maxSize == parseInt(IF truthy(env.MAX_FILE_SIZE) THEN env.MAX_FILE_SIZE[1]
                          ELSE <<"0">>)
  IN  numGT(maxSize, 0) /\ numGT(object.size, maxSize)

\* A conditional evaluation that tests If-Modified-Since whether or not
\* If-None-Match is present
conditionalDateAlways(request, object) ==
  LET ifNoneMatch     == request.IfNoneMatch
      ifModifiedSince == request.IfModifiedSince
  IN  IF truthy(ifNoneMatch) /\ object.httpEtag # <<>>
         /\ ifNoneMatch[1] = object.httpEtag
      THEN "etag"
      ELSE IF ifModifiedSince # <<>>
              /\ dateGetTime(ifModifiedSince[1]) # NaN
              /\ object.uploaded <= dateGetTime(ifModifiedSince[1])
      THEN "date"
      ELSE ""

\* A conditional evaluation that compares If-None-Match with the validator
\* less its quotes
conditionalUnquoted(request, object) ==
  LET ifNoneMatch     == request.IfNoneMatch
      ifModifiedSince == request.IfModifiedSince
  IN  IF truthy(ifNoneMatch) /\ object.httpEtag # <<>>
         /\ ifNoneMatch[1] = sliceDropLast(slice(object.httpEtag, 1))
      THEN "etag"
      ELSE IF ifModifiedSince # <<>> /\ ~truthy(ifNoneMatch)
              /\ dateGetTime(ifModifiedSince[1]) # NaN
              /\ object.uploaded <= dateGetTime(ifModifiedSince[1])
      THEN "date"
      ELSE ""

\* lines 568-601: "etag", "date" or "" (not a conditional hit)
conditional(request, object) ==
  LET ifNoneMatch     == request.IfNoneMatch
      ifModifiedSince == request.IfModifiedSince
  IN  IF truthy(ifNoneMatch) /\ object.httpEtag # <<>>
         /\ ifNoneMatch[1] = object.httpEtag
      THEN "etag"
      ELSE IF ifModifiedSince # <<>> /\ ~truthy(ifNoneMatch)
              /\ dateGetTime(ifModifiedSince[1]) # NaN
              /\ object.uploaded <= dateGetTime(ifModifiedSince[1])
      THEN "date"
      ELSE ""

\* A read flow that looks the URL up in the edge cache before it checks the
\* origin
readFlowCacheFirst(request, env, bucket, cache, r2ok) ==
  LET allowedOrigins == IF truthy(env.ALLOWED_ORIGINS) THEN env.ALLOWED_ORIGINS[1]
                        ELSE <<"*">>
      key      == slice(request.pathname, 1)
      cacheKey == request.pathname
      none(r)  == [response |-> r, cachePut |-> <<>>]
  IN
  IF key # <<>> /\ cacheKey \in DOMAIN cache
  THEN none([cache[cacheKey] EXCEPT !.XCacheStatus = "HIT"])
  ELSE IF ~isOriginAllowed(request, allowedOrigins)
  THEN none(textResponse(403, "Forbidden: Invalid origin"))
  ELSE IF key = <<>>
  THEN none(textResponse(400, "Bad Request: No file path provided"))
  ELSE IF ~r2ok
  THEN none([textResponse(500, "Internal Server Error")
               EXCEPT !.ContentType = "text/plain"])
  ELSE IF key \notin DOMAIN bucket THEN none(textResponse(404, "Not Found"))
  ELSE
    LET object == bucket[key]
        full   == fullHeaders(request, allowedOrigins, object, key)
    IN
    IF readTooLarge(env, object) THEN none(textResponse(413, "File Too Large"))
    ELSE IF conditional(request, object) = "etag"
    THEN none(notModifiedByETag(object, key))
    ELSE IF conditional(request, object) = "date"
    THEN none(notModifiedByDate(object, key))
    ELSE IF request.method = "HEAD" THEN none(full)
    ELSE [ response |-> [full EXCEPT !.data = <<object.body>>],
           cachePut |-> << [url |-> cacheKey,
                            response |-> [full EXCEPT !.data = <<object.body>>]] >> ]

\* bucket: the keys R2 holds, with their objects; cache: caches.default, the
\* cached responses by URL; r2ok: whether CDN_BUCKET.get resolves.  The result
\* is the response and cachePut: <<>> or <<[url, response]>>, the cache.put
\* handed to ctx.waitUntil.
readFlow(request, env, bucket, cache, r2ok) ==
  LET allowedOrigins == IF truthy(env.ALLOWED_ORIGINS) THEN env.ALLOWED_ORIGINS[1]
                        ELSE <<"*">>
      key      == slice(request.pathname, 1)
      cacheKey == request.pathname
      none(r)  == [response |-> r, cachePut |-> <<>>]
  IN
  IF ~isOriginAllowed(request, allowedOrigins)
  THEN none(textResponse(403, "Forbidden: Invalid origin"))
  ELSE IF key = <<>>
  THEN none(textResponse(400, "Bad Request: No file path provided"))
  ELSE IF cacheKey \in DOMAIN cache
  THEN none([cache[cacheKey] EXCEPT !.XCacheStatus = "HIT"])
  ELSE IF ~r2ok
  THEN none([textResponse(500, "Internal Server Error")
               EXCEPT !.ContentType = "text/plain"])
  ELSE IF key \notin DOMAIN bucket THEN none(textResponse(404, "Not Found"))
  ELSE
    LET object == bucket[key]
        full   == fullHeaders(request, allowedOrigins, object, key)
    IN
    IF readTooLarge(env, object) THEN none(textResponse(413, "File Too Large"))
    ELSE IF conditional(request, object) = "etag"
    THEN none(notModifiedByETag(object, key))
    ELSE IF conditional(request, object) = "date"
    THEN none(notModifiedByDate(object, key))
    ELSE IF request.method = "HEAD" THEN none(full)
    ELSE [ response |-> [full EXCEPT !.data = <<object.body>>],
           cachePut |-> << [url |-> cacheKey,
                            response |-> [full EXCEPT !.data = <<object.body>>]] >> ]


\* ------------------------------------------------------------------------
\* fetch: the dispatcher (lines 471-689)
\* ------------------------------------------------------------------------

healthPath == <<"/", "h", "e", "a", "l", "t", "h">>

\* lines 479-489
preflightResponse ==
  [noResponse EXCEPT !.status = 200,
     !.AccessControlAllowOrigin = << <<"*">> >>,
     !.AccessControlAllowMethods = "GET, HEAD, POST, OPTIONS",
     !.AccessControlAllowHeaders = "Content-Type, Authorization",
     !.AccessControlMaxAge = "86400"]

\* lines 502-513
healthResponse ==
  [noResponse EXCEPT !.status = 200, !.body = "{status: ok, service: TinyKit CDN}",
     !.ContentType = "application/json"]

\* A dispatcher that tests the method before the upload route
fetchResultMethodFirst(request, env, bucket, cache, nowMs, r2ok) ==
  IF request.method = "OPTIONS"
  THEN [response |-> preflightResponse, put |-> <<>>, cachePut |-> <<>>]
  ELSE IF request.method # "GET" /\ request.method # "HEAD"
  THEN [response |-> textResponse(405, "Method Not Allowed"),
        put |-> <<>>, cachePut |-> <<>>]
  ELSE IF request.pathname = healthPath \/ request.pathname = <<"/">>
  THEN [response |-> healthResponse, put |-> <<>>, cachePut |-> <<>>]
  ELSE LET rd == readFlow(request, env, bucket, cache, r2ok)
       IN  [response |-> rd.response, put |-> <<>>, cachePut |-> rd.cachePut]

\* What one call of fetch does: the response, the write to the bucket (put)
\* and the cache.put handed to ctx.waitUntil (cachePut), each <<>> when there
\* is none.
fetchResult(request, env, bucket, cache, nowMs, r2ok) ==
  IF request.method = "OPTIONS"
  THEN [response |-> preflightResponse, put |-> <<>>, cachePut |-> <<>>]
  ELSE IF request.method = "POST" /\ startsWith(request.pathname, uploadPrefix)
  THEN LET up == handleUpload(request, env, nowMs, r2ok)
       IN  [response |-> up.response, put |-> up.put, cachePut |-> <<>>]
  ELSE IF request.method # "GET" /\ request.method # "HEAD"
  THEN [response |-> textResponse(405, "Method Not Allowed"),
        put |-> <<>>, cachePut |-> <<>>]
  ELSE IF request.pathname = healthPath \/ request.pathname = <<"/">>
  THEN [response |-> healthResponse, put |-> <<>>, cachePut |-> <<>>]
  ELSE LET rd == readFlow(request, env, bucket, cache, r2ok)
       IN  [response |-> rd.response, put |-> <<>>, cachePut |-> rd.cachePut]


\* ------------------------------------------------------------------------
\* The environment and the inputs of the model
\* ------------------------------------------------------------------------

\* The most requests one behaviour handles
MaxRequests == 2

\* The most half-second steps the clock takes
MaxTicks == 1

\* Date.now() at the start: second 10, 500 ms in
startMs == 10 * 1000 + 500

tickMs == 1000 \div 2

\* JSON.parse(env.JWT_SECRETS) of '{"app1": "s1", "app2": "s2"}'
registeredSecrets ==
  [ set |-> TRUE, kind |-> "object",
    map |-> ( "app1" :> [isString |-> TRUE, value |-> "s1"] ) @@
            ( "app2" :> [isString |-> TRUE, value |-> "s2"] ) ]

\* The bindings of Env: an unset binding is <<>>
openEnv ==
  [ ALLOWED_ORIGINS |-> <<>>, UPLOAD_ALLOWED_ORIGINS |-> <<>>,
    MAX_FILE_SIZE |-> <<>>, JWT_SECRETS |-> registeredSecrets ]

\* ALLOWED_ORIGINS = "a.io, b.io", UPLOAD_ALLOWED_ORIGINS = "a.io",
\* MAX_FILE_SIZE = "2"
lockedEnv ==
  [ ALLOWED_ORIGINS |-> << <<"a", ".", "i", "o", ",", " ", "b", ".", "i", "o">> >>,
    UPLOAD_ALLOWED_ORIGINS |-> << <<"a", ".", "i", "o">> >>,
    MAX_FILE_SIZE |-> << <<"2">> >>, JWT_SECRETS |-> registeredSecrets ]

\* JWT_SECRETS unset, and JWT_SECRETS that JSON.parse rejects
noSecretsEnv ==
  [openEnv EXCEPT !.JWT_SECRETS = [set |-> FALSE, kind |-> "object",
                                   map |-> registeredSecrets.map]]
malformedSecretsEnv ==
  [openEnv EXCEPT !.JWT_SECRETS = [set |-> TRUE, kind |-> "malformed",
                                   map |-> registeredSecrets.map]]

Envs == {openEnv, lockedEnv, malformedSecretsEnv}

\* Origin header values: https://a.io, https://c.io
originA == <<"h", "t", "t", "p", "s", ":", "/", "/", "a", ".", "i", "o">>
originC == <<"h", "t", "t", "p", "s", ":", "/", "/", "c", ".", "i", "o">>

\* Token payloads and tokens
noExp == [kind |-> "absent", num |-> 0]
expAt(n) == [kind |-> "number", num |-> n]

jwtHeader == [decodes |-> TRUE, typ |-> "JWT", alg |-> "HS256"]

payloadOf(appName, exp, allowedPaths, maxFileSize, allowedExtensions) ==
  [ decodes |-> TRUE, appName |-> appName, exp |-> exp,
    allowedPaths |-> allowedPaths, maxFileSize |-> maxFileSize,
    allowedExtensions |-> allowedExtensions ]

\* A three-piece token with header h and payload p, signed with secret k
signedToken(h, p, k) ==
  [ nparts |-> 3, header |-> h, payload |-> p,
    signature |-> [decodes |-> TRUE, mac |-> HMAC(k, h, p)] ]

\* {appName: "app1", exp: now + 3600, allowedPaths: ["app1/*"]}, app1's secret
tokenApp1 ==
  signedToken(jwtHeader,
              payloadOf("app1", expAt(10 + 3600), << << <<"a", "p", "p", "1", "/", "*">> >> >>, 0, <<>>),
              "s1")

\* allowedPaths: ["*"]
tokenWild ==
  signedToken(jwtHeader,
              payloadOf("app1", expAt(10 + 3600), << << <<"*">> >> >>, 0, <<>>),
              "s1")

\* exp is the second the clock starts in: valid until the clock's next second
tokenShort ==
  signedToken(jwtHeader,
              payloadOf("app1", expAt(10), << << <<"*">> >> >>, 0, <<>>), "s1")

\* exp one second before the start
tokenExpired ==
  signedToken(jwtHeader,
              payloadOf("app1", expAt(9), << << <<"*">> >> >>, 0, <<>>), "s1")

\* payload asserts app2, signed with app1's secret
tokenForged ==
  signedToken(jwtHeader,
              payloadOf("app2", expAt(10 + 3600), << << <<"*">> >> >>, 0, <<>>),
              "s1")

\* no allowedPaths in the payload
tokenNoPaths ==
  signedToken(jwtHeader, payloadOf("app1", expAt(10 + 3600), <<>>, 0, <<>>), "s1")

\* two pieces only
tokenTwoParts == [tokenWild EXCEPT !.nparts = 2]

bearer(token) == << [first7 |-> bearerPrefix, token |-> token] >>

basic(token) == << [first7 |-> <<"B", "a", "s", "i", "c", " ", "x">>, token |-> token] >>

Authorizations ==
  { <<>>, bearer(tokenApp1), bearer(tokenWild), bearer(tokenShort),
    bearer(tokenExpired), bearer(tokenForged), bearer(tokenTwoParts),
    bearer(tokenNoPaths), basic(tokenWild) }

\* Request bodies: 1 byte and 3 bytes
bodyX == <<"x">>
bodyYYY == <<"y", "y", "y">>

\* Upload pathnames, as new URL(request.url).pathname gives them
upApp1 == <<"/", "u", "p", "l", "o", "a", "d", "/", "a", "p", "p", "1", "/", "i", "m", "g", ".", "p", "n", "g">>
upApp2 == <<"/", "u", "p", "l", "o", "a", "d", "/", "a", "p", "p", "2", "/", "i", "m", "g", ".", "p", "n", "g">>
upSlashApp1 == <<"/", "u", "p", "l", "o", "a", "d", "/", "/", "a", "p", "p", "1", "/", "i", "m", "g", ".", "p", "n", "g">>
upDotDot == <<"/", "u", "p", "l", "o", "a", "d", "/", "a", ".", ".", "p", "n", "g">>
upInnerSlashes == <<"/", "u", "p", "l", "o", "a", "d", "/", "a", "a", "/", "/", "b", ".", "p", "n", "g">>
upSlashB == <<"/", "u", "p", "l", "o", "a", "d", "/", "/", "b", ".", "p", "n", "g">>
upXB == <<"/", "u", "p", "l", "o", "a", "d", "/", "x", "/", "b", ".", "p", "n", "g">>
upTxt == <<"/", "u", "p", "l", "o", "a", "d", "/", "a", ".", "t", "x", "t">>

UploadPaths ==
  {upApp1, upApp2, upSlashApp1, upDotDot, upInnerSlashes, upSlashB, upXB, upTxt}

newRequest(method, pathname) ==
  [ method |-> method, pathname |-> pathname, Origin |-> <<>>, Referer |-> <<>>,
    Authorization |-> <<>>, ContentLength |-> <<>>, body |-> <<>>,
    IfNoneMatch |-> <<>>, IfModifiedSince |-> <<>> ]

\* A token of app1, correctly signed and valid for an hour, with the given
\* allowedPaths, maxFileSize and allowedExtensions (<<>> / 0 / <<>>: absent)
tokenWith(allowedPaths, maxFileSize, allowedExtensions) ==
  signedToken(jwtHeader,
              payloadOf("app1", expAt(10 + 3600), allowedPaths, maxFileSize,
                        allowedExtensions),
              "s1")

\* allowedPaths: ["app1/*"]
app1Paths == << << <<"a", "p", "p", "1", "/", "*">> >> >>

\* POST of body to the pathname from which url.pathname.slice(9) takes key
uploadOf(key, authorization, body) ==
  [newRequest("POST", uploadPrefix \o <<"/">> \o key)
     EXCEPT !.Authorization = authorization, !.body = body]

\* Keys; long has 501 characters
Keys ==
  [ app1Img  |-> <<"a", "p", "p", "1", "/", "i", "m", "g", ".", "p", "n", "g">>,
    app1Sub  |-> <<"a", "p", "p", "1", "/", "s", "u", "b", "/", "i", "m", "g", ".", "p", "n", "g">>,
    app12Img |-> <<"a", "p", "p", "1", "2", "/", "i", "m", "g", ".", "p", "n", "g">>,
    app2Img  |-> <<"a", "p", "p", "2", "/", "i", "m", "g", ".", "p", "n", "g">>,
    img      |-> <<"i", "m", "g", ".", "p", "n", "g">>,
    app1Dots |-> <<"a", "p", "p", "1", "/", "a", ".", ".", "p", "n", "g">>,
    app2Dots |-> <<"a", "p", "p", "2", "/", "a", ".", ".", "p", "n", "g">>,
    lower    |-> <<"a", "/", "x", ".", "p", "n", "g">>,
    upper    |-> <<"a", "/", "x", ".", "P", "N", "G">>,
    jpg      |-> <<"a", "/", "x", ".", "j", "p", "g">>,
    long     |-> [i \in 1..(maxKeyLength - 3) |-> "a"] \o <<".", "p", "n", "g">> ]

\* POST /upload/...: every path with every Authorization, and the two
\* paths that can be stored with every origin, Content-Length and body
UploadRequests ==
  { [newRequest("POST", pa) EXCEPT !.Authorization = au, !.body = bodyX] :
      pa \in UploadPaths, au \in Authorizations }
  \cup
  { [newRequest("POST", pa) EXCEPT !.Authorization = au, !.body = bo,
                                   !.Origin = og, !.ContentLength = cl] :
      pa \in {upSlashApp1, upSlashB},
      au \in {bearer(tokenApp1), bearer(tokenWild)},
      bo \in {bodyX, bodyYYY},
      og \in {<<>>, <<originA>>, <<originC>>},
      cl \in {<<>>, << <<"3">> >>} }

\* GET/HEAD pathnames
rdApp1 == <<"/", "a", "p", "p", "1", "/", "i", "m", "g", ".", "p", "n", "g">>
rdB == <<"/", "b", ".", "p", "n", "g">>
rdDownload == <<"/", "a", "/", "d", "o", "w", "n", "l", "o", "a", "d", "s", "/", "f", ".", "p", "n", "g">>
rdMissing == <<"/", "c", ".", "t", "x", "t">>

ReadPaths == {rdApp1, rdB, rdDownload, rdMissing}

\* If-None-Match values: absent, empty, the validators of the two bodies
IfNoneMatchValues ==
  { <<>>, << <<>> >>, <<httpEtagOf(bodyX)>>, <<httpEtagOf(bodyYYY)>> }

\* If-Modified-Since values: absent, no date, seconds 9 and 10
IfModifiedSinceValues == { <<>>, <<NaN>>, <<9>>, <<10>> }

ReadRequests ==
  { [newRequest("GET", pa) EXCEPT !.IfNoneMatch = inm, !.IfModifiedSince = ims] :
      pa \in {rdB, rdDownload}, inm \in IfNoneMatchValues,
      ims \in IfModifiedSinceValues }
  \cup
  { [newRequest(me, pa) EXCEPT !.Origin = og] :
      me \in {"GET", "HEAD"}, pa \in ReadPaths \cup {healthPath, <<"/">>},
      og \in {<<>>, <<originA>>, <<originC>>} }

\* Uploads under a valid token to a key of 501 characters and to a key whose
\* extension the token's allowedExtensions [".jpg"] leaves out
RefusedUploads ==
  { uploadOf(Keys.long, bearer(tokenWild), bodyX),
    uploadOf(Keys.app1Img,
             bearer(tokenWith(app1Paths, 0, << << <<".", "j", "p", "g">> >> >>)),
             bodyX) }

OtherRequests ==
  RefusedUploads
  \cup
  { newRequest(me, pa) :
      me \in {"OPTIONS", "PUT", "DELETE", "POST"},
      pa \in {rdB, healthPath, <<"/">>} }
  \cup
  { [newRequest(me, upSlashB) EXCEPT !.Authorization = bearer(tokenWild),
                                      !.body = bodyX] :
      me \in {"OPTIONS", "PUT", "GET"} }

Requests == UploadRequests \cup ReadRequests \cup OtherRequests

\* Objects the bucket holds before the worker's first request (put there
\* with other tools): uploaded in second 9, 500 ms in
preloadedBucket ==
  ( slice(rdB, 1) :> r2Object(bodyX, "image/png", 9 * 1000 + 500) ) @@
  ( slice(rdDownload, 1) :> r2Object(bodyYYY, "", 9 * 1000 + 500) )


\* ------------------------------------------------------------------------
\* State
\* ------------------------------------------------------------------------

VARIABLES
  env,          \* the bindings the worker runs with
  CDN_BUCKET,   \* the R2 bucket: key -> object
  cache,        \* caches.default: URL -> cached response
  waitUntil,    \* the cache.put promises handed to ctx.waitUntil, not yet settled
  now,          \* Date.now(), in milliseconds
  request,      \* <<the request being answered>>, <<>> between requests
  response,     \* the response fetch returned for it
  previous,     \* the response to the same request sent just before, if any
  put,          \* <<[key, object]>> when that call wrote to the bucket, else <<>>
  handled,      \* how many calls of fetch there have been
  args,         \* the arguments a function is applied to (function runs only)
  result        \* <<its result>>, <<>> before the call

vars ==
  <<env, CDN_BUCKET, cache, waitUntil, now, request, response, previous, put,
    handled, args, result>>

\* The worker's variables, which a run of one function leaves alone
worker ==
  <<env, CDN_BUCKET, cache, waitUntil, now, request, response, previous, put,
    handled>>

emptyCache == [u \in {} |-> noResponse]

InitWorker ==
  /\ CDN_BUCKET = preloadedBucket
  /\ cache = emptyCache
  /\ waitUntil = {}
  /\ now = startMs
  /\ request = <<>>
  /\ response = noResponse
  /\ previous = noResponse
  /\ put = <<>>
  /\ handled = 0

Init ==
  /\ env \in Envs
  /\ InitWorker
  /\ args = <<>>
  /\ result = <<>>

\* A put that keeps the object a key already holds and stores the new one
\* under the key with "~" appended
bucketAfterPutCopy(bucket, write) ==
  IF write = <<>> THEN bucket
  ELSE IF write[1].key \in DOMAIN bucket
  THEN (Append(write[1].key, "~") :> write[1].object) @@ bucket
  ELSE (write[1].key :> write[1].object) @@ bucket

\* CDN_BUCKET.put(key, fileData, ...): the object replaces the one under key
bucketAfterPut(bucket, write) ==
  IF write = <<>> THEN bucket
  ELSE (write[1].key :> write[1].object) @@ bucket

\* A fetch handler that hands the response of every GET or HEAD answered
\* 200 to cache.put
fetchCachingEveryRead(req, r2ok) ==
  /\ handled < MaxRequests
  /\ LET out == fetchResult(req, env, CDN_BUCKET, cache, now, r2ok)
     IN  /\ response' = out.response
         /\ put' = out.put
         /\ CDN_BUCKET' = bucketAfterPut(CDN_BUCKET, out.put)
         /\ waitUntil' =
              IF req.method \in {"GET", "HEAD"} /\ out.response.status = 200
              THEN waitUntil \cup {[url |-> req.pathname, response |-> out.response]}
              ELSE waitUntil
  /\ request' = <<req>>
  /\ handled' = handled + 1
  /\ UNCHANGED <<env, cache, now, args, result>>

\* One call of the worker's fetch handler on req
fetch(req, r2ok) ==
  /\ handled < MaxRequests
  /\ LET out == fetchResult(req, env, CDN_BUCKET, cache, now, r2ok)
     IN  /\ response' = out.response
         /\ put' = out.put
         /\ CDN_BUCKET' = bucketAfterPut(CDN_BUCKET, out.put)
         /\ waitUntil' =
              IF out.cachePut = <<>> THEN waitUntil
              ELSE waitUntil \cup {out.cachePut[1]}
  /\ request' = <<req>>
  /\ handled' = handled + 1
  /\ UNCHANGED <<env, cache, now, args, result>>

\* A client sends a request
newCall ==
  /\ request = <<>>
  /\ previous' = noResponse
  /\ \E req \in Requests, r2ok \in BOOLEAN : fetch(req, r2ok)

\* The client of the request just answered sends the identical request again
repeatCall ==
  /\ request # <<>>
  /\ previous' = response
  /\ \E r2ok \in BOOLEAN : fetch(request[1], r2ok)

\* The response has gone out; the worker waits for the next request
respond ==
  /\ request # <<>>
  /\ request' = <<>>
  /\ response' = noResponse
  /\ previous' = noResponse
  /\ put' = <<>>
  /\ UNCHANGED <<env, CDN_BUCKET, cache, waitUntil, now, handled, args, result>>

\* A cache.put handed to waitUntil resolves: the response is stored under
\* its URL
cachePutDone ==
  \E task \in waitUntil :
    /\ cache' = (task.url :> task.response) @@ cache
    /\ waitUntil' = waitUntil \ {task}
    /\ UNCHANGED <<env, CDN_BUCKET, now, request, response, previous, put,
                   handled, args, result>>

\* A cache.put that the response path awaits: when it rejects, the request
\* being answered gets 500
cachePutLostAwaited ==
  \E task \in waitUntil :
    /\ waitUntil' = waitUntil \ {task}
    /\ response' = IF request # <<>> /\ request[1].pathname = task.url
                   THEN [textResponse(500, "Internal Server Error")
                           EXCEPT !.ContentType = "text/plain"]
                   ELSE response
    /\ UNCHANGED <<env, CDN_BUCKET, cache, now, request, previous,
                   put, handled, args, result>>

\* A cache.put handed to waitUntil rejects, or the cache drops the response
cachePutLost ==
  \E task \in waitUntil :
    /\ waitUntil' = waitUntil \ {task}
    /\ UNCHANGED <<env, CDN_BUCKET, cache, now, request, response, previous,
                   put, handled, args, result>>

\* Time passes
tick ==
  /\ now < startMs + MaxTicks * tickMs
  /\ now' = now + tickMs
  /\ UNCHANGED <<env, CDN_BUCKET, cache, waitUntil, request, response, previous,
                 put, handled, args, result>>

Next ==
  \/ newCall
  \/ repeatCall
  \/ respond
  \/ cachePutDone
  \/ cachePutLost
  \/ tick

Spec == Init /\ [][Next]_vars

\* The worker some time after it answered GET /b.png from the bucket and
\* the edge cache stored the response
warmCache ==
  LET served == readFlow(newRequest("GET", rdB), openEnv, preloadedBucket,
                         emptyCache, TRUE)
  IN  (served.cachePut[1].url :> served.cachePut[1].response)

InitWarm ==
  /\ env \in {openEnv, lockedEnv}
  /\ CDN_BUCKET = preloadedBucket
  /\ cache = warmCache
  /\ waitUntil = {}
  /\ now = startMs
  /\ request = <<>>
  /\ response = noResponse
  /\ previous = noResponse
  /\ put = <<>>
  /\ handled = 0
  /\ args = <<>>
  /\ result = <<>>

SpecWarm == InitWarm /\ [][Next]_vars

\* ------------------------------------------------------------------------
\* Runs of one function: parseJWTToken on a token, a registry and a clock
\* ------------------------------------------------------------------------

\* '{"app1": "s1", "app2": "s1"}': two apps registered with one secret
sharedSecrets ==
  [ registeredSecrets EXCEPT
      !.map = ( "app1" :> [isString |-> TRUE, value |-> "s1"] ) @@
              ( "app2" :> [isString |-> TRUE, value |-> "s1"] ) ]

Registries == {registeredSecrets, sharedSecrets}

wildcardPaths == << << <<"*">> >> >>

undecodable == [decodes |-> FALSE, typ |-> "", alg |-> ""]

JwtHeaders == {jwtHeader, [jwtHeader EXCEPT !.alg = "none"], undecodable}

\* exp: absent, 0, before / at / after the clock's seconds, an hour ahead,
\* the last second allowed at second 10, more than a year ahead, a string
ExpValues ==
  { noExp, expAt(0), expAt(9), expAt(10), expAt(11), expAt(10 + 3600),
    expAt(10 + yearSeconds), expAt(11 + yearSeconds + 1),
    [kind |-> "string", num |-> 0] }

AppNames == {"", "app1", "app2", "ghost"}

JwtPayloads ==
  { payloadOf(a, e, wildcardPaths, 0, <<>>) : a \in AppNames, e \in ExpValues }
  \cup { [payloadOf("", noExp, <<>>, 0, <<>>) EXCEPT !.decodes = FALSE] }

SigningKeys == {"s1", "s2", "sX"}

\* The signature pieces a token with header h and payload p may carry: a MAC
\* of its own text under some key, a MAC of another payload's text (the
\* payload was altered after signing), a piece that does not decode
signaturesFor(h, p) ==
  { [decodes |-> TRUE, mac |-> HMAC(k, h, p)] : k \in SigningKeys }
  \cup { [decodes |-> TRUE, mac |-> HMAC("s1", h, [p EXCEPT !.maxFileSize = 1])],
         [decodes |-> FALSE, mac |-> HMAC("", h, p)] }

JwtTokens ==
  UNION { { [nparts |-> 3, header |-> h, payload |-> p, signature |-> sg] :
              sg \in signaturesFor(h, p) } :
          h \in JwtHeaders, p \in JwtPayloads }
  \cup { [tokenWild EXCEPT !.nparts = n] : n \in {0, 1, 2, 4} }

InitJWT ==
  /\ env = openEnv
  /\ InitWorker
  /\ args \in { [token |-> t, secrets |-> r, nowMs |-> n] :
                  t \in JwtTokens, r \in Registries,
                  n \in {startMs, startMs + tickMs} }
  /\ result = <<>>

callParseJWTToken ==
  /\ result = <<>>
  /\ result' = <<parseJWTToken(args.token, args.secrets, args.nowMs)>>
  /\ UNCHANGED <<worker, args>>

SpecJWT == InitJWT /\ [][callParseJWTToken]_vars

\* ------------------------------------------------------------------------
\* Runs of one function: getCacheConfig on a path
\* ------------------------------------------------------------------------

PathDirs ==
  { <<>>, <<"a", "/">>, <<"a", "/">> \o Tail(downloadsSegment),
    Tail(downloadsSegment), downloadsSegment,
    <<"a", "/", "d", "o", "w", "n", "l", "o", "a", "d", "s", ".">> }

PathNames == { <<"b">>, <<"b", ".", "p", "n", "g">>, <<>> }

PathExtensions ==
  staticSuffixes
  \cup { <<>>, <<".", "P", "N", "G">>, <<".", "t", "x", "t">>, <<".", "p", "d", "f">>,
         <<"p", "n", "g">>, <<".", "p", "n", "g", "x">>, <<".", "T", "t", "F">> }

CachePaths == { d \o n \o e : d \in PathDirs, n \in PathNames, e \in PathExtensions }

InitCacheConfig ==
  /\ env = openEnv
  /\ InitWorker
  /\ args \in { [path |-> pa] : pa \in CachePaths }
  /\ result = <<>>

callGetCacheConfig ==
  /\ result = <<>>
  /\ result' = <<getCacheConfig(args.path)>>
  /\ UNCHANGED <<worker, args>>

SpecCacheConfig == InitCacheConfig /\ [][callGetCacheConfig]_vars


\* ------------------------------------------------------------------------
\* Runs of one function: isOriginAllowed, or the origin block of
\* validateUploadRequest, on a request and an allowlist
\* ------------------------------------------------------------------------

\* Referer header values: https://a.io/p, https://c.io/p
refererA == originA \o <<"/", "p">>
refererC == originC \o <<"/", "p">>

\* Allowlists
OriginLists ==
  [ star   |-> <<"*">>,
    ab     |-> <<"a", ".", "i", "o", ",", " ", "b", ".", "i", "o">>,
    a      |-> <<"a", ".", "i", "o">>,
    spaced |-> <<" ", "b", ".", "i", "o", " ", ",", "a", ".", "i", "o">>,
    starB  |-> <<"*", ",", "b", ".", "i", "o">>,
    b      |-> <<"b", ".", "i", "o">> ]

\* Requests with every combination of an absent, empty, https://a.io and
\* https://c.io Origin and Referer
OriginRequests ==
  { [newRequest("GET", rdB) EXCEPT !.Origin = og, !.Referer = rf] :
      og \in {<<>>, << <<>> >>, <<originA>>, <<originC>>},
      rf \in {<<>>, << <<>> >>, <<refererA>>, <<refererC>>} }

\* allowedOrigins: <<>> for an unset binding, << <<>> >> for an empty one
InitOrigin ==
  /\ env = openEnv
  /\ InitWorker
  /\ args \in { [request |-> rq, allowedOrigins |-> al] :
                  rq \in OriginRequests,
                  al \in {<<>>, << <<>> >>} \cup { <<OriginLists[l]>> : l \in DOMAIN OriginLists } }
  /\ result = <<>>

\* The read flow's call: isOriginAllowed(request, env.ALLOWED_ORIGINS || '*')
callIsOriginAllowed ==
  /\ result = <<>>
  /\ truthy(args.allowedOrigins)
  /\ result' = << [ fn |-> "isOriginAllowed",
                    allowed |-> isOriginAllowed(args.request,
                                                args.allowedOrigins[1]),
                    error |-> "" ] >>
  /\ UNCHANGED <<worker, args>>

\* The origin block of validateUploadRequest with UPLOAD_ALLOWED_ORIGINS =
\* allowedOrigins
callUploadOriginCheck ==
  /\ result = <<>>
  /\ LET e   == [openEnv EXCEPT !.UPLOAD_ALLOWED_ORIGINS = args.allowedOrigins]
         err == uploadOriginCheck(args.request, e)
     IN  result' = << [ fn |-> "uploadOriginCheck", allowed |-> err = "",
                        error |-> err ] >>
  /\ UNCHANGED <<worker, args>>

SpecOrigin == InitOrigin /\ [][callIsOriginAllowed \/ callUploadOriginCheck]_vars


\* ------------------------------------------------------------------------
\* Runs of one function: handleUpload on a request, an environment and a
\* clock
\* ------------------------------------------------------------------------

\* Sizes: MAX_FILE_SIZE unset, "2" and "4"; token maxFileSize absent, 1, 3
\* and 200000000; bodies of 1 and 3 bytes; Content-Length absent, "1", "3"
\* and "104857601"
SizeInputs ==
  { [ request |-> [uploadOf(Keys.app1Img, bearer(tokenWith(app1Paths, mfs, <<>>)), bo)
                     EXCEPT !.ContentLength = cl],
      env |-> [openEnv EXCEPT !.MAX_FILE_SIZE = mx],
      nowMs |-> startMs, r2ok |-> TRUE ] :
      mx \in {<<>>, << <<"2">> >>, << <<"4">> >>},
      mfs \in {0, 1, 3, 200000000},
      bo \in {bodyX, bodyYYY},
      cl \in {<<>>, << <<"1">> >>, << <<"3">> >>,
              << <<"1", "0", "4", "8", "5", "7", "6", "0", "1">> >>} }

\* Order of the checks: UPLOAD_ALLOWED_ORIGINS = "a.io" and MAX_FILE_SIZE =
\* "2"; a request from https://a.io or https://c.io; no token, an expired
\* one, or a valid one for app1/* with allowedExtensions absent or [".jpg"];
\* a key that is authorized or not, well formed or not; a body and a
\* Content-Length within the limit or not; a bucket that answers or not
OrderInputs ==
  { [ request |-> [uploadOf(ke, au, bo) EXCEPT !.ContentLength = cl, !.Origin = <<og>>],
      env |-> lockedEnv, nowMs |-> startMs, r2ok |-> ok ] :
      ke \in {Keys.app1Img, Keys.app2Img, Keys.app1Dots, Keys.app2Dots},
      au \in {<<>>}
             \cup { bearer(signedToken(jwtHeader,
                            payloadOf("app1", expAt(ex), app1Paths, 0, ae), "s1")) :
                      ex \in {9, 10 + 3600},
                      ae \in {<<>>, << << <<".", "j", "p", "g">> >> >>} },
      bo \in {bodyX, bodyYYY},
      cl \in {<<>>, << <<"3">> >>},
      og \in {originA, originC},
      ok \in BOOLEAN }

\* allowedPaths values: absent, [], ["app1/*"], ["app1/img.png"], ["app1/"],
\* ["app1*"], ["app2/*", "app1/img.png"], ["*"], ["app2/*", "*"]
AllowedPathsValues ==
  { <<>>, << <<>> >>, app1Paths, << <<Keys.app1Img>> >>,
    << << <<"a", "p", "p", "1", "/">> >> >>,
    << << <<"a", "p", "p", "1", "*">> >> >>,
    << << <<"a", "p", "p", "2", "/", "*">>, Keys.app1Img >> >>,
    << << <<"*">> >> >>,
    << << <<"a", "p", "p", "2", "/", "*">>, <<"*">> >> >> }

PathInputs ==
  { [ request |-> uploadOf(ke, bearer(tokenWith(ap, 0, <<>>)), bodyX),
      env |-> openEnv, nowMs |-> startMs, r2ok |-> TRUE ] :
      ke \in {Keys.app1Img, Keys.app1Sub, Keys.app12Img, Keys.app2Img, Keys.img},
      ap \in AllowedPathsValues }

\* allowedExtensions values: absent, [], [".png"], [".PNG"], [".jpg", ".png"],
\* [".jpg"]
AllowedExtensionsValues ==
  { <<>>, << <<>> >>, << << <<".", "p", "n", "g">> >> >>, << << <<".", "P", "N", "G">> >> >>,
    << << <<".", "j", "p", "g">>, <<".", "p", "n", "g">> >> >>, << << <<".", "j", "p", "g">> >> >> }

ExtensionInputs ==
  { [ request |-> uploadOf(ke, bearer(tokenWith(<< << <<"*">> >> >>, 0, ae)), bodyX),
      env |-> openEnv, nowMs |-> startMs, r2ok |-> TRUE ] :
      ke \in {Keys.lower, Keys.upper, Keys.jpg},
      ae \in AllowedExtensionsValues }

\* A registry that is unset or malformed or in order, a key of 501
\* characters, a bucket that answers or not
FaultInputs ==
  { [ request |-> uploadOf(ke, au, bodyX), env |-> e, nowMs |-> startMs,
      r2ok |-> ok ] :
      ke \in {Keys.app1Img, Keys.long, Keys.app1Dots},
      au \in {<<>>, bearer(tokenWild), bearer(tokenForged)},
      e \in {openEnv, noSecretsEnv, malformedSecretsEnv},
      ok \in BOOLEAN }

InitUpload ==
  /\ env = openEnv
  /\ InitWorker
  /\ args \in SizeInputs \cup OrderInputs \cup PathInputs \cup ExtensionInputs
              \cup FaultInputs
  /\ result = <<>>

callHandleUpload ==
  /\ result = <<>>
  /\ result' = <<handleUpload(args.request, args.env, args.nowMs, args.r2ok)>>
  /\ UNCHANGED <<worker, args>>

SpecUpload == InitUpload /\ [][callHandleUpload]_vars


\* ------------------------------------------------------------------------
\* Properties
\* ------------------------------------------------------------------------

\* This step is a call of fetch; request' holds the request it answers
called == handled' = handled + 1

\* POST with a pathname under /upload/
isUpload(req) == req.method = "POST" /\ startsWith(req.pathname, uploadPrefix)

\* The key "app1/img.png"
app1Key == slice(rdApp1, 1)

\* The C1 request: the token {appName: "app1", exp: now + 3600,
\* allowedPaths: ["app1/*"]}, signed with app1's secret, on POST pathname
c1Upload(pathname) ==
  [newRequest("POST", pathname) EXCEPT !.Authorization = bearer(tokenApp1),
                                       !.body = bodyX]

\* C1: with the token {appName: "app1", exp: now + 3600,
\* allowedPaths: ["app1/*"]} signed with app1's registered secret,
\* POST /upload/app1/img.png succeeds and the object is put under key
\* app1/img.png (where the upload-origin check lets the request in and the
\* bucket takes the put), while POST /upload/app2/img.png with the same token
\* is rejected as path not allowed and nothing is put.
C1_EndToEndUpload ==
  /\ ( /\ request = <<c1Upload(upApp1)>>
       /\ uploadOriginCheck(request[1], env) = ""
       /\ response.code # "UPLOAD_ERROR" )
     => /\ response.status = 200
        /\ response.success
        /\ response.key = app1Key
        /\ put # <<>>
        /\ put[1].key = app1Key
        /\ app1Key \in DOMAIN CDN_BUCKET
  /\ ( /\ request = <<c1Upload(upApp2)>>
       /\ uploadOriginCheck(request[1], env) = "" )
     => /\ response.status = 401
        /\ response.error = "Path not allowed for token"
        /\ put = <<>>

\* The keys C2 is about: containing '..', containing '//', or beginning with '/'
c2BadKey(key) ==
  \/ includes(key, <<".", ".">>)
  \/ includes(key, <<"/", "/">>)
  \/ (key # <<>> /\ key[1] = "/")

\* C2 (as claimed): every upload request whose key contains '..', contains
\* '//' or begins with '/' is answered INVALID_PATH (400) and writes nothing,
\* whatever the state of the token.
C2_InvalidPathWhateverToken ==
  [][ (called /\ isUpload(request'[1])
         /\ c2BadKey(uploadKey(request'[1].pathname)))
      => /\ response'.status = 400
         /\ response'.code = "INVALID_PATH"
         /\ put' = <<>>
         /\ CDN_BUCKET' = CDN_BUCKET ]_vars

\* C2 (amended): an upload request whose key (url.pathname.slice(9)) contains
\* '..', contains '//' or begins with '/' writes nothing; it is answered
\* INVALID_PATH (400) when it passes validateUploadRequest (upload-origin
\* check, Bearer token, verification, path authorization) and UNAUTHORIZED
\* (401) when it does not.
C2_InvalidPathAfterAuthorization ==
  [][ (called /\ isUpload(request'[1])
         /\ c2BadKey(uploadKey(request'[1].pathname)))
      => /\ put' = <<>>
         /\ CDN_BUCKET' = CDN_BUCKET
         /\ IF validateUploadRequest(request'[1], env,
                                     uploadKey(request'[1].pathname), now).valid
            THEN response'.status = 400 /\ response'.code = "INVALID_PATH"
            ELSE response'.status = 401 /\ response'.code = "UNAUTHORIZED" ]_vars

\* An upload with a valid wildcard token and a key beginning with '/' has been
\* answered INVALID_PATH
C2_Witness ==
  /\ request # <<>>
  /\ isUpload(request[1])
  /\ request[1].Authorization = bearer(tokenWild)
  /\ c2BadKey(uploadKey(request[1].pathname))
  /\ response.status = 400
  /\ response.code = "INVALID_PATH"

\* What C3 requires of a request that writes: POST under /upload/, a Bearer
\* token that verifies at nowMs, a key the token's allowedPaths authorizes
\* (absent allowedPaths restricts nothing) and validateFilePath accepts, and a
\* body no longer than the effective maximum size
c3MayWrite(req, e, nowMs) ==
  LET key  == uploadKey(req.pathname)
      auth == req.Authorization
  IN  /\ req.method = "POST"
      /\ startsWith(req.pathname, uploadPrefix)
      /\ auth # <<>>
      /\ auth[1].first7 = bearerPrefix
      /\ parseJWTToken(auth[1].token, e.JWT_SECRETS, nowMs).valid
      /\ LET tokenData == auth[1].token.payload
         IN  /\ \/ tokenData.allowedPaths = <<>>
                \/ pathAllowed(tokenData.allowedPaths[1], key)
             /\ ~c2BadKey(key)
             /\ extensionOf(key) \in DOMAIN CONTENT_TYPES
             /\ Len(key) <= maxKeyLength
             /\ ~numGT(Len(req.body), uploadMaxSize(e, <<tokenData>>))

\* C3: across any sequence of requests the bucket is written only by a call
\* of fetch on a POST /upload/ request with a Bearer token that passed
\* verification, a key that passed path authorization and file-path
\* validation, and a body within the effective maximum size; every rejected
\* upload leaves the bucket unchanged.
C3_WritesOnlyByAuthorizedUpload ==
  [][ /\ CDN_BUCKET' # CDN_BUCKET => called /\ put' # <<>>
      /\ (called /\ put' # <<>>)
         => /\ c3MayWrite(request'[1], env, now)
            /\ response'.status = 200
            /\ CDN_BUCKET' = (put'[1].key :> put'[1].object) @@ CDN_BUCKET
      /\ (called /\ isUpload(request'[1]) /\ response'.status # 200)
         => put' = <<>> /\ CDN_BUCKET' = CDN_BUCKET ]_vars

\* An upload has written its object; a later upload has been rejected with
\* the object still there
C3_Witness ==
  /\ request # <<>>
  /\ isUpload(request[1])
  /\ response.status = 401
  /\ put = <<>>
  /\ slice(rdApp1, 1) \in DOMAIN CDN_BUCKET
  /\ CDN_BUCKET[slice(rdApp1, 1)].body = bodyX

\* The token parseJWTToken was applied to has three pieces and a payload
\* with a numeric exp earlier than the verification instant
c4Expired ==
  /\ result # <<>>
  /\ args.token.nparts = 3
  /\ args.token.payload.decodes
  /\ args.token.payload.exp.kind = "number"
  /\ args.token.payload.exp.num < nowSeconds(args.nowMs)

\* The token's payload names an app the registry holds a secret for
c4Registered ==
  /\ args.token.payload.appName \in DOMAIN args.secrets.map
  /\ args.secrets.map[args.token.payload.appName].value # ""

\* The signature is the MAC of the token's own text under the secret
\* registered for its app
c4SignatureValid ==
  /\ c4Registered
  /\ args.token.signature.decodes
  /\ args.token.signature.mac =
       HMAC(args.secrets.map[args.token.payload.appName].value,
            args.token.header, args.token.payload)

\* C4 (as claimed): every token whose exp is earlier than the verification
\* instant fails verification with an expiry error, even when its signature
\* is valid for its app's registered secret.  (Read here for the tokens of a
\* registered app with the header {typ: "JWT", alg: "HS256"} and a valid
\* signature.)
C4_ExpiredFailsWithExpiryError ==
  (c4Expired /\ c4SignatureValid /\ args.token.header = jwtHeader) =>
    ~result[1].valid /\ result[1].error = "Token expired"

\* C4 (amended): every token whose exp is earlier than the verification
\* instant fails verification, whatever its header and signature; the error
\* is "Token expired" when the payload names a registered app and exp is not
\* 0, "JWT payload must contain exp" when exp is 0, and the missing-appName /
\* no-secret error when the payload names no registered app.
C4_ExpiredNeverVerifies ==
  c4Expired =>
    /\ ~result[1].valid
    /\ result[1].payload = <<>>
    /\ result[1].error =
         IF args.token.payload.appName = ""
         THEN "JWT payload must contain valid appName"
         ELSE IF ~c4Registered THEN "No JWT secret configured for app"
         ELSE IF args.token.payload.exp.num = 0
         THEN "JWT payload must contain exp (expiration time)"
         ELSE "Token expired"

\* A token correctly signed for its registered app, expired one second before
\* the verification instant, has been refused as expired
C4_Witness ==
  /\ c4Expired
  /\ c4SignatureValid
  /\ args.token.header = jwtHeader
  /\ args.token.payload.exp.num = nowSeconds(args.nowMs) - 1
  /\ result[1].error = "Token expired"

\* The token parseJWTToken was applied to asserts the registered app B and
\* carries the MAC of its own text under the secret registered for some
\* other app A
c5SignedByOtherApp ==
  /\ result # <<>>
  /\ args.token.nparts = 3
  /\ args.token.payload.decodes
  /\ c4Registered
  /\ args.token.signature.decodes
  /\ \E a \in DOMAIN args.secrets.map \ {args.token.payload.appName} :
       args.token.signature.mac =
         HMAC(args.secrets.map[a].value, args.token.header, args.token.payload)

\* The secret of the token's app is registered for that app alone
c5SecretOfItsOwn ==
  \A a \in DOMAIN args.secrets.map \ {args.token.payload.appName} :
    args.secrets.map[a].value # args.secrets.map[args.token.payload.appName].value

\* C5 (as claimed): every token signed with app A's secret whose payload
\* asserts appName = B, A and B both registered, fails verification with an
\* invalid-signature error.  (Read here for A's secret differing from B's,
\* and for the tokens with a numeric, non-zero exp and the header
\* {typ: "JWT", alg: "HS256"}.)
C5_CrossAppFailsWithInvalidSignature ==
  ( /\ c5SignedByOtherApp
    /\ c5SecretOfItsOwn
    /\ args.token.payload.exp.kind = "number"
    /\ args.token.payload.exp.num # 0
    /\ args.token.header = jwtHeader )
  => ~result[1].valid /\ result[1].error = "Invalid JWT signature"

\* C5 (amended): a token signed with app A's secret whose payload asserts
\* appName = B, A and B registered with different secrets, fails
\* verification; the error is "Invalid JWT signature" when the token passes
\* the checks made before the signature's (exp present, not past, at most a
\* year ahead; header typ JWT and alg HS256), and the error of the first of
\* those checks it fails otherwise.
C5_CrossAppNeverVerifies ==
  (c5SignedByOtherApp /\ c5SecretOfItsOwn) =>
    /\ ~result[1].valid
    /\ result[1].error =
         IF expCheck(args.token.payload.exp, nowSeconds(args.nowMs)) # ""
         THEN expCheck(args.token.payload.exp, nowSeconds(args.nowMs))
         ELSE IF ~args.token.header.decodes THEN "Failed to parse JWT token"
         ELSE IF args.token.header # jwtHeader
         THEN "Invalid JWT format or algorithm (only HS256 supported)"
         ELSE "Invalid JWT signature"

\* An unexpired token that asserts app2 and is signed with app1's secret has
\* been refused for its signature
C5_Witness ==
  /\ c5SignedByOtherApp
  /\ c5SecretOfItsOwn
  /\ args.token = tokenForged
  /\ result[1].error = "Invalid JWT signature"

\* The extensions C8 lists
c8Extensions ==
  { <<"p", "n", "g">>, <<"j", "p", "g">>, <<"j", "p", "e", "g">>, <<"g", "i", "f">>,
    <<"w", "e", "b", "p">>, <<"s", "v", "g">>, <<"i", "c", "o">>,
    <<"w", "o", "f", "f">>, <<"w", "o", "f", "f", "2">>, <<"t", "t", "f">>,
    <<"o", "t", "f">> }

\* The path has a '.', and what follows its last '.' is, ignoring case, one
\* of the listed extensions
c8HasListedExtension(path) ==
  /\ lastIndexOf(path, ".") >= 0
  /\ toLowerCase(slice(path, lastIndexOf(path, ".") + 1)) \in c8Extensions

isRead(req) ==
  /\ req.method \in {"GET", "HEAD"}
  /\ req.pathname # healthPath
  /\ req.pathname # <<"/">>

\* env.ALLOWED_ORIGINS || '*'
readAllowlist(e) ==
  IF truthy(e.ALLOWED_ORIGINS) THEN e.ALLOWED_ORIGINS[1] ELSE <<"*">>

\* This step is a call of fetch on a permitted read of an object the bucket
\* holds, which the bucket answers
readOfStored ==
  /\ called
  /\ isRead(request'[1])
  /\ isOriginAllowed(request'[1], readAllowlist(env))
  /\ slice(request'[1].pathname, 1) \in DOMAIN CDN_BUCKET
  /\ response'.status # 500

\* The 304 of a validator match: no body; ETag, Cache-Control, Last-Modified
c6NotModified(resp, object, key) ==
  /\ resp.status = 304
  /\ resp.data = <<>>
  /\ resp.ETag = <<object.httpEtag>>
  /\ resp.CacheControl = getCacheConfig(key).cacheControl
  /\ resp.LastModified = object.uploaded \div 1000

\* The full 200 response for the object: its headers, and its content on GET
c6Full(resp, object, method) ==
  /\ resp.status = 200
  /\ resp.ETag = <<object.httpEtag>>
  /\ resp.ContentLength = object.size
  /\ resp.data = IF method = "GET" THEN <<object.body>> ELSE <<>>

\* C6 (as claimed): for a stored object with validator v, a permitted read
\* with If-None-Match equal to v yields 304 with no body, carrying the
\* validator, cache-control and last-modified headers, and one with
\* If-None-Match different from v yields a full 200 response.  (Read here for
\* an object within the read size limit and an If-None-Match that is not
\* empty.)
C6_ConditionalByValidator ==
  [][ (readOfStored
         /\ ~readTooLarge(env, CDN_BUCKET[slice(request'[1].pathname, 1)]))
      => LET req    == request'[1]
             key    == slice(req.pathname, 1)
             object == CDN_BUCKET[key]
         IN  /\ req.IfNoneMatch = <<object.httpEtag>>
                => c6NotModified(response', object, key)
             /\ (truthy(req.IfNoneMatch) /\ req.IfNoneMatch # <<object.httpEtag>>)
                => c6Full(response', object, req.method) ]_vars

\* C6 (amended): when the edge cache holds no response for the URL and the
\* object is within the read size limit, a permitted read with If-None-Match
\* equal to the validator v yields the 304 and one with a non-empty
\* If-None-Match different from v yields a full 200; when the cache holds a
\* response for the URL, that response is returned whatever the
\* If-None-Match; an object over the read size limit is answered 413.
C6_ConditionalByValidatorOnMiss ==
  [][ readOfStored =>
        LET req    == request'[1]
            key    == slice(req.pathname, 1)
            object == CDN_BUCKET[key]
        IN  IF req.pathname \in DOMAIN cache
            THEN response' = [cache[req.pathname] EXCEPT !.XCacheStatus = "HIT"]
            ELSE IF readTooLarge(env, object)
            THEN response'.status = 413
            ELSE /\ req.IfNoneMatch = <<object.httpEtag>>
                    => c6NotModified(response', object, key)
                 /\ ( /\ truthy(req.IfNoneMatch)
                      /\ req.IfNoneMatch # <<object.httpEtag>> )
                    => c6Full(response', object, req.method) ]_vars

\* A GET of b.png with its validator in If-None-Match has been answered 304
\* with the validator
C6_Witness ==
  /\ request # <<>>
  /\ request[1].method = "GET"
  /\ request[1].pathname = rdB
  /\ request[1].IfNoneMatch = <<httpEtagOf(bodyX)>>
  /\ response.status = 304
  /\ response.ETag = <<httpEtagOf(bodyX)>>
  /\ response.data = <<>>

\* If-Modified-Since parses to a timestamp at or after the object's
\* last-modified
c7NotModifiedSince(req, object) ==
  /\ req.IfModifiedSince # <<>>
  /\ req.IfModifiedSince[1] # NaN
  /\ req.IfModifiedSince[1] * 1000 >= object.uploaded

\* The 304 of the date test: no body; Cache-Control and Last-Modified
c7NotModified(resp, object, key) ==
  /\ resp.status = 304
  /\ resp.data = <<>>
  /\ resp.CacheControl = getCacheConfig(key).cacheControl
  /\ resp.LastModified = object.uploaded \div 1000

\* The response is the one the same call gives the request with any other
\* If-Modified-Since, or with none
c7NoInfluence(req, resp) ==
  \A ims \in IfModifiedSinceValues :
    \E r2ok \in BOOLEAN :
      fetchResult([req EXCEPT !.IfModifiedSince = ims], env, CDN_BUCKET, cache,
                  now, r2ok).response = resp

C9_UploadIdempotent ==
  [][ ( /\ called
        /\ request # <<>>
        /\ request' = request
        /\ isUpload(request[1])
        /\ response.status = 200
        /\ response.success
        /\ parseJWTToken(request[1].Authorization[1].token, env.JWT_SECRETS,
                         now).valid
        /\ response'.code # "UPLOAD_ERROR" )
      => /\ response'.status = 200
         /\ response'.success
         /\ response'.key = response.key
         /\ response'.size = response.size
         /\ response'.contentType = response.contentType
         /\ DOMAIN CDN_BUCKET' = DOMAIN CDN_BUCKET
         /\ CDN_BUCKET'[response.key].body = request[1].body
         /\ CDN_BUCKET'[response.key].size = response.size
         /\ CDN_BUCKET'[response.key].contentType = response.contentType ]_vars

\* The same upload has succeeded twice in a row
C9_Witness ==
  /\ request # <<>>
  /\ isUpload(request[1])
  /\ previous.success
  /\ response.success
  /\ response.key = previous.key
  /\ CDN_BUCKET[response.key].body = request[1].body

\* The responses of the upload flow: a JSON body reporting success or one of
\* its error codes
c10FromUploadFlow(resp) ==
  /\ resp.body = "json"
  /\ \/ resp.success /\ resp.status = 200
     \/ resp.code \in {"UNAUTHORIZED", "INVALID_PATH", "FILE_TOO_LARGE",
                       "EXTENSION_NOT_ALLOWED", "UPLOAD_ERROR"}

\* The responses of the read flow: its refusals, a 304, or the object's 200
\* marked as a cache hit or miss
c10FromReadFlow(resp) ==
  \/ resp.status = 403 /\ resp.body = "Forbidden: Invalid origin"
  \/ resp.status = 404 /\ resp.body = "Not Found"
  \/ resp.status = 413 /\ resp.body = "File Too Large"
  \/ resp.status = 500 /\ resp.body = "Internal Server Error"
  \/ resp.status = 304 /\ resp.LastModified # NaN
  \/ resp.status = 200 /\ resp.XCacheStatus \in {"HIT", "MISS"}

\* C10: routing is first match wins: OPTIONS on any path gives the CORS
\* preflight response without touching cache or bucket; POST under /upload/
\* enters the upload flow; any other method that is not GET or HEAD (POST to
\* another path included) gives 405; GET/HEAD on /health or / gives the
\* liveness response without an origin check; every other GET/HEAD enters the
\* read flow.
C10_Routing ==
  [][ called =>
        LET req       == request'[1]
            untouched == /\ CDN_BUCKET' = CDN_BUCKET
                         /\ cache' = cache
                         /\ waitUntil' = waitUntil
                         /\ put' = <<>>
        IN  IF req.method = "OPTIONS"
            THEN /\ response'.status = 200
                 /\ response'.AccessControlAllowMethods = "GET, HEAD, POST, OPTIONS"
                 /\ response'.AccessControlAllowHeaders = "Content-Type, Authorization"
                 /\ response'.body = ""
                 /\ untouched
            ELSE IF isUpload(req)
            THEN c10FromUploadFlow(response')
            ELSE IF req.method \notin {"GET", "HEAD"}
            THEN /\ response'.status = 405
                 /\ response'.body = "Method Not Allowed"
                 /\ untouched
            ELSE IF req.pathname \in {healthPath, <<"/">>}
            THEN /\ response'.status = 200
                 /\ response'.body = "{status: ok, service: TinyKit CDN}"
                 /\ untouched
            ELSE c10FromReadFlow(response') ]_vars

\* GET /health from an origin the read allowlist rejects has been given the
\* liveness response
C10_Witness ==
  /\ request # <<>>
  /\ request[1].method = "GET"
  /\ request[1].pathname = healthPath
  /\ request[1].Origin = <<originC>>
  /\ ~isOriginAllowed(request[1], readAllowlist(env))
  /\ response.status = 200
  /\ response.body = "{status: ok, service: TinyKit CDN}"

\* ------------------------------------------------------------------------
\* C11: the origin gate of the read flow
\* ------------------------------------------------------------------------

\* C11: a call of fetch on a read (GET or HEAD, not the liveness paths)
\* answers 200 or 304 only when isOriginAllowed allows the request against
\* the read allowlist; a request it rejects is answered 403 "Forbidden:
\* Invalid origin" whatever the edge cache holds under its URL and whether
\* or not the bucket answers, and the call hands no cache.put to waitUntil
\* and writes nothing to the bucket.
C11_ReadsGatedByOrigin ==
  [][ called /\ isRead(request'[1]) =>
        LET allowed == isOriginAllowed(request'[1], readAllowlist(env))
        IN  /\ response'.status \in {200, 304} => allowed
            /\ ~allowed =>
                 /\ response' = textResponse(403, "Forbidden: Invalid origin")
                 /\ waitUntil' = waitUntil
                 /\ put' = <<>>
                 /\ CDN_BUCKET' = CDN_BUCKET ]_vars

\* A GET from https://c.io, which the read allowlist rejects, of a URL whose
\* response the edge cache holds has been answered 403
C11_Witness ==
  /\ request # <<>>
  /\ request[1].method = "GET"
  /\ request[1].pathname = rdB
  /\ request[1].Origin = <<originC>>
  /\ ~isOriginAllowed(request[1], readAllowlist(env))
  /\ rdB \in DOMAIN cache
  /\ response.status = 403

\* ------------------------------------------------------------------------
\* C12: isOriginAllowed
\* ------------------------------------------------------------------------

\* The trimmed entries of a comma-separated allowlist
c12Entries(allowedOrigins) ==
  LET parts == split(allowedOrigins)
  IN  { trim(parts[i]) : i \in DOMAIN parts }

\* header, a present and non-empty header value, contains an allowlist entry
c12Matches(header, allowedOrigins) ==
  /\ header # <<>>
  /\ header[1] # <<>>
  /\ \E e \in c12Entries(allowedOrigins) : includes(header[1], e)

c12Ran == result # <<>> /\ result[1].fn = "isOriginAllowed"

\* C12 as claimed: the allowlist "*" allows every request, a request with
\* neither Origin nor Referer is allowed, and otherwise the request is
\* allowed iff an allowlist entry is a substring of the Origin or, only when
\* there is no Origin, of the Referer.  (A header with an empty value is
\* read here as absent.)
C12_RefererOnlyWithoutOrigin ==
  c12Ran =>
    LET rq == args.request
        al == args.allowedOrigins[1]
    IN  result[1].allowed
          <=> \/ al = <<"*">>
              \/ ~truthy(rq.Origin) /\ ~truthy(rq.Referer)
              \/ c12Matches(rq.Origin, al)
              \/ ~truthy(rq.Origin) /\ c12Matches(rq.Referer, al)

\* C12, amended: the allowlist "*" allows every request, a request with
\* neither Origin nor Referer is allowed, and otherwise the request is
\* allowed iff an allowlist entry is a substring of the Origin or of the
\* Referer, whichever are present: a matching Referer allows the request
\* also when a non-matching Origin is present.
C12_OriginOrReferer ==
  c12Ran =>
    LET rq == args.request
        al == args.allowedOrigins[1]
    IN  result[1].allowed
          <=> \/ al = <<"*">>
              \/ ~truthy(rq.Origin) /\ ~truthy(rq.Referer)
              \/ c12Matches(rq.Origin, al)
              \/ c12Matches(rq.Referer, al)

\* isOriginAllowed has allowed a request with Origin https://c.io and
\* Referer https://a.io/p against the allowlist "a.io, b.io"
C12_Witness ==
  /\ c12Ran
  /\ args.request.Origin = <<originC>>
  /\ args.request.Referer = <<refererA>>
  /\ args.allowedOrigins = <<OriginLists.ab>>
  /\ result[1].allowed

\* ------------------------------------------------------------------------
\* C13: the origin block of validateUploadRequest
\* ------------------------------------------------------------------------

c13Ran == result # <<>> /\ result[1].fn = "uploadOriginCheck"

c14Ran == result # <<>> /\ "put" \in DOMAIN result[1]

\* The request of args passes validateUploadRequest and validateFilePath,
\* the checks handleUpload makes before it looks at sizes
c14ReachesSizeChecks ==
  LET key == uploadKey(args.request.pathname)
  IN  /\ validateUploadRequest(args.request, args.env, key, args.nowMs).valid
      /\ validateFilePath(key).valid

\* The token's maxFileSize, 0 when it has none
c14TokenMax == args.request.Authorization[1].token.payload.maxFileSize

\* Content-Length or the body's byte count exceeds limit (none: NaN)
c14Exceeds(limit) ==
  /\ limit # NaN
  /\ \/ /\ args.request.ContentLength # <<>>
        /\ parseInt(args.request.ContentLength[1]) # NaN
        /\ parseInt(args.request.ContentLength[1]) > limit
     \/ Len(args.request.body) > limit

c14TooLarge ==
  /\ result[1].response.status = 413
  /\ result[1].response.code = "FILE_TOO_LARGE"
  /\ result[1].put = <<>>

\* C14 as claimed: the limit is min(MAX_FILE_SIZE, token maxFileSize) when
\* both are configured, the configured one when only one is, and there is
\* no limit when neither is; the upload is answered 413 FILE_TOO_LARGE
\* exactly when its Content-Length or its byte count exceeds that limit.
\* (Read here for the uploads that pass the earlier checks.)
C14_NoLimitWhenNothingConfigured ==
  c14Ran /\ c14ReachesSizeChecks =>
    LET global == args.env.MAX_FILE_SIZE
        limit  == IF global # <<>> /\ c14TokenMax # 0
                  THEN (IF parseInt(global[1]) < c14TokenMax
                        THEN parseInt(global[1]) ELSE c14TokenMax)
                  ELSE IF global # <<>> THEN parseInt(global[1])
                  ELSE IF c14TokenMax # 0 THEN c14TokenMax
                  ELSE NaN
    IN  c14TooLarge <=> c14Exceeds(limit)

\* C14, amended: the global maximum is MAX_FILE_SIZE, or 104857600 when
\* MAX_FILE_SIZE is not configured; the limit is the smaller of the global
\* maximum and the token's maxFileSize when the token has one, else the
\* global maximum; an upload that passes validateUploadRequest and
\* validateFilePath is answered 413 FILE_TOO_LARGE, with nothing put,
\* exactly when its Content-Length or its byte count exceeds that limit.
C14_SizeLimitWithDefault ==
  c14Ran /\ c14ReachesSizeChecks =>
    LET global == IF args.env.MAX_FILE_SIZE # <<>>
                  THEN parseInt(args.env.MAX_FILE_SIZE[1]) ELSE 104857600
        limit  == IF c14TokenMax # 0 /\ c14TokenMax < global
                  THEN c14TokenMax ELSE global
    IN  /\ c14TooLarge <=> c14Exceeds(limit)
        /\ result[1].response.status = 413 => c14TooLarge

\* With MAX_FILE_SIZE unset, an upload of one byte that declares
\* Content-Length 104857601 has been answered 413: once under a token
\* without maxFileSize, once under a token with maxFileSize 200000000
C14_Witness ==
  /\ c14Ran
  /\ c14ReachesSizeChecks
  /\ args.env.MAX_FILE_SIZE = <<>>
  /\ c14TokenMax \in {0, 200000000}
  /\ Len(args.request.body) = 1
  /\ c14TooLarge

\* ------------------------------------------------------------------------
\* C15: the order of the checks of an upload
\* ------------------------------------------------------------------------

\* The checks, each on its own, on the request of args
c15Key == uploadKey(args.request.pathname)

c15OriginFails == uploadOriginCheck(args.request, args.env) # ""

c15TokenFails ==
  LET auth == args.request.Authorization
  IN  \/ auth = <<>>
      \/ auth[1].first7 # bearerPrefix
      \/ ~args.env.JWT_SECRETS.set
      \/ args.env.JWT_SECRETS.kind = "malformed"
      \/ ~parseJWTToken(auth[1].token, args.env.JWT_SECRETS, args.nowMs).valid

\* The payload of a token that has passed: the checks below are made on it
c15Payload == args.request.Authorization[1].token.payload

c15PathNotAuthorized ==
  /\ c15Payload.allowedPaths # <<>>
  /\ \A i \in DOMAIN c15Payload.allowedPaths[1] :
       LET pattern == c15Payload.allowedPaths[1][i]
       IN  /\ pattern # <<"*">>
           /\ pattern # c15Key
           /\ ~(endsWith(pattern, <<"/", "*">>)
                /\ startsWith(c15Key, SubSeq(pattern, 1, Len(pattern) - 1)))
  /\ \A i \in DOMAIN c15Payload.allowedPaths[1] :
       c15Payload.allowedPaths[1][i] # <<"*">>

c15FilePathFails == ~validateFilePath(c15Key).valid

c15Limit == uploadMaxSize(args.env, <<c15Payload>>)

c15DeclaredTooLarge ==
  /\ args.request.ContentLength # <<>>
  /\ numGT(parseInt(args.request.ContentLength[1]), c15Limit)

c15ReceivedTooLarge == numGT(Len(args.request.body), c15Limit)

c15ExtensionFails ==
  /\ c15Payload.allowedExtensions # <<>>
  /\ \A i \in DOMAIN c15Payload.allowedExtensions[1] :
       c15Payload.allowedExtensions[1][i] # extensionOf(c15Key)

\* The check whose error a response reports, "put" for a failed store put
\* and "none" for a success
c15Reported(r) ==
  IF r.success THEN "none"
  ELSE IF r.code = "UNAUTHORIZED"
  THEN (IF r.error \in {"Origin verification failed",
                        "Origin not allowed for uploads"}
        THEN "origin"
        ELSE IF r.error = "Path not allowed for token" THEN "allowedPaths"
        ELSE "token")
  ELSE IF r.code = "INVALID_PATH" THEN "filePath"
  ELSE IF r.code = "FILE_TOO_LARGE" THEN "size"
  ELSE IF r.code = "EXTENSION_NOT_ALLOWED" THEN "allowedExtensions"
  ELSE IF r.code = "UPLOAD_ERROR" THEN "put"
  ELSE "other"

\* C15 as claimed: the checks are made in the order origin, token
\* verification, token authorization (allowedPaths and allowedExtensions),
\* Content-Length, received byte count, store put, and the response is the
\* error of the first that fails.  (Read here for keys that pass
\* validateFilePath, a check the claim does not place.)
C15_ExtensionBeforeSize ==
  c14Ran /\ ~c15FilePathFails =>
    c15Reported(result[1].response) =
      IF c15OriginFails THEN "origin"
      ELSE IF c15TokenFails THEN "token"
      ELSE IF c15PathNotAuthorized THEN "allowedPaths"
      ELSE IF c15ExtensionFails THEN "allowedExtensions"
      ELSE IF c15DeclaredTooLarge \/ c15ReceivedTooLarge THEN "size"
      ELSE IF ~args.r2ok THEN "put"
      ELSE "none"

\* C15, amended: the checks are made in the order origin, token
\* verification, allowedPaths of the token, validateFilePath, Content-Length,
\* received byte count, allowedExtensions of the token, store put; the
\* response is the error of the first that fails, and the object is put
\* exactly when none fails.  A request that fails both the token's
\* allowedExtensions and the size limit is answered FILE_TOO_LARGE.
C15_CheckOrder ==
  c14Ran =>
    /\ c15Reported(result[1].response) =
         IF c15OriginFails THEN "origin"
         ELSE IF c15TokenFails THEN "token"
         ELSE IF c15PathNotAuthorized THEN "allowedPaths"
         ELSE IF c15FilePathFails THEN "filePath"
         ELSE IF c15DeclaredTooLarge \/ c15ReceivedTooLarge THEN "size"
         ELSE IF c15ExtensionFails THEN "allowedExtensions"
         ELSE IF ~args.r2ok THEN "put"
         ELSE "none"
    /\ result[1].put # <<>> <=> c15Reported(result[1].response) = "none"

\* An upload that passes the origin, token, allowedPaths and file-path
\* checks, and fails both the size limit and the token's allowedExtensions,
\* has been answered 413 FILE_TOO_LARGE
C15_Witness ==
  /\ c14Ran
  /\ ~c15OriginFails
  /\ ~c15TokenFails
  /\ ~c15PathNotAuthorized
  /\ ~c15FilePathFails
  /\ c15ReceivedTooLarge
  /\ c15ExtensionFails
  /\ result[1].response.status = 413
  /\ result[1].response.code = "FILE_TOO_LARGE"

\* ------------------------------------------------------------------------
\* C16: path authorization
\* ------------------------------------------------------------------------

\* handleUpload has run on a request that passes the origin check with a
\* token that verifies and carries an allowedPaths list without the entry "*"
c16Case ==
  /\ c14Ran
  /\ ~c15OriginFails
  /\ ~c15TokenFails
  /\ c15Payload.allowedPaths # <<>>
  /\ \A i \in DOMAIN c15Payload.allowedPaths[1] :
       c15Payload.allowedPaths[1][i] # <<"*">>

\* entry is a literal prefix of k
c16Prefix(entry, k) ==
  Len(entry) <= Len(k) /\ \A j \in 1..Len(entry) : k[j] = entry[j]

\* Some entry equals k, or ends in "/*" and is, less its "*", a prefix of k
c16Matches(entries, k) ==
  \E i \in DOMAIN entries :
    \/ entries[i] = k
    \/ /\ Len(entries[i]) >= 2
       /\ entries[i][Len(entries[i]) - 1] = "/"
       /\ entries[i][Len(entries[i])] = "*"
       /\ c16Prefix(SubSeq(entries[i], 1, Len(entries[i]) - 1), k)

\* C16: for a verified token whose allowedPaths has no entry "*", the upload
\* to key k (the key handleUpload takes from the pathname) is authorized iff
\* an entry equals k or an entry ends in "/*" and, less the "*", is a
\* literal prefix of k; an upload that is not authorized is answered 401
\* "Path not allowed for token" and nothing is put.
C16_PathAuthorization ==
  c16Case =>
    LET r == result[1].response
    IN  IF c16Matches(c15Payload.allowedPaths[1], c15Key)
        THEN c15Reported(r) # "allowedPaths"
        ELSE /\ r.status = 401
             /\ r.code = "UNAUTHORIZED"
             /\ r.error = "Path not allowed for token"
             /\ result[1].put = <<>>

\* Under allowedPaths ["app1/*"] the upload to app1/sub/img.png has been
\* stored
C16_Witness ==
  /\ c16Case
  /\ c15Payload.allowedPaths = app1Paths
  /\ c15Key = Keys.app1Sub
  /\ result[1].response.success
  /\ result[1].put # <<>>

\* ------------------------------------------------------------------------
\* C17: a token without allowedPaths
\* ------------------------------------------------------------------------

\* C17: an upload under a token that verifies (correctly signed, not
\* expired) and whose payload has no allowedPaths is never authorized: it is
\* not answered with success and nothing is put.
C17_AllowedPathsRequired ==
  c14Ran /\ ~c15OriginFails /\ ~c15TokenFails /\ c15Payload.allowedPaths = <<>>
    => /\ ~result[1].response.success
       /\ result[1].put = <<>>

\* ------------------------------------------------------------------------
\* C18: the token's allowedExtensions
\* ------------------------------------------------------------------------

\* C18: an upload that reaches the test of the token's allowedExtensions is
\* accepted only if the key's extension equals an entry of the list when
\* case is ignored, and is otherwise answered 400 EXTENSION_NOT_ALLOWED with
\* nothing put; a key and an entry that differ only in case match.
C18_ExtensionsIgnoreCase ==
  /\ c14Ran
  /\ ~c15OriginFails /\ ~c15TokenFails /\ ~c15PathNotAuthorized
  /\ ~c15FilePathFails /\ ~c15DeclaredTooLarge /\ ~c15ReceivedTooLarge
  /\ c15Payload.allowedExtensions # <<>>
  => LET list    == c15Payload.allowedExtensions[1]
         member  == \E i \in DOMAIN list :
                      toLowerCase(list[i]) = toLowerCase(extensionOf(c15Key))
     IN  IF member
         THEN c15Reported(result[1].response) # "allowedExtensions"
         ELSE /\ result[1].response.status = 400
              /\ result[1].response.code = "EXTENSION_NOT_ALLOWED"
              /\ result[1].put = <<>>

\* ------------------------------------------------------------------------
\* C19: the status of a failed request
\* ------------------------------------------------------------------------

\* The registry of e is unset or is not JSON
c19RegistryUnusable(e) == ~e.JWT_SECRETS.set \/ e.JWT_SECRETS.kind = "malformed"

\* What the status st of the answer to the upload req must be, cause by
\* cause; registryStatus is the status for a registry that is unusable
c19Upload(req, e, nowMs, st, registryStatus) ==
  LET key  == uploadKey(req.pathname)
      auth == req.Authorization
      originRejected == uploadOriginCheck(req, e) # ""
      noBearer       == auth = <<>> \/ auth[1].first7 # bearerPrefix
      tokenRefused   ==
        \/ ~parseJWTToken(auth[1].token, e.JWT_SECRETS, nowMs).valid
        \/ /\ auth[1].token.payload.allowedPaths # <<>>
           /\ ~c16Matches(auth[1].token.payload.allowedPaths[1], key)
           /\ \A i \in DOMAIN auth[1].token.payload.allowedPaths[1] :
                auth[1].token.payload.allowedPaths[1][i] # <<"*">>
      pathError      == \/ c2BadKey(key)
                        \/ extensionOf(key) \notin DOMAIN CONTENT_TYPES
                        \/ Len(key) > maxKeyLength
      limit          == uploadMaxSize(e, <<auth[1].token.payload>>)
      sizeError      ==
        \/ req.ContentLength # <<>> /\ numGT(parseInt(req.ContentLength[1]), limit)
        \/ numGT(Len(req.body), limit)
      extensionError ==
        /\ auth[1].token.payload.allowedExtensions # <<>>
        /\ \A i \in DOMAIN auth[1].token.payload.allowedExtensions[1] :
             auth[1].token.payload.allowedExtensions[1][i] # extensionOf(key)
  IN  IF originRejected \/ noBearer THEN st = 401
      ELSE IF c19RegistryUnusable(e) THEN st = registryStatus
      ELSE IF tokenRefused THEN st = 401
      ELSE IF pathError THEN st = 400
      ELSE IF sizeError THEN st = 413
      ELSE IF extensionError THEN st = 400
      ELSE st \in {200, 500}

\* What the status st of the answer to the read req must be: 403 for a
\* rejected origin; else whatever the edge cache holds under the URL; else
\* 500 for a bucket that fails, 404 for an absent object, 413 for an object
\* over MAX_FILE_SIZE
c19Read(req, e, bucket, edge, st) ==
  LET key == slice(req.pathname, 1)
  IN  IF ~isOriginAllowed(req, readAllowlist(e)) THEN st = 403
      ELSE IF req.pathname \in DOMAIN edge THEN st = edge[req.pathname].status
      ELSE IF key \notin DOMAIN bucket THEN st \in {404, 500}
      ELSE IF /\ e.MAX_FILE_SIZE # <<>>
              /\ numGT(bucket[key].size, parseInt(e.MAX_FILE_SIZE[1]))
      THEN st \in {413, 500}
      ELSE st \in {200, 304, 500}

\* The taxonomy on one call of fetch
c19Taxonomy(registryStatus) ==
  LET req == request'[1]
      st  == response'.status
  IN  IF req.method = "OPTIONS" THEN st = 200
      ELSE IF isUpload(req) THEN c19Upload(req, env, now, st, registryStatus)
      ELSE IF req.method \notin {"GET", "HEAD"} THEN st = 405
      ELSE IF ~isRead(req) THEN st = 200
      ELSE c19Read(req, env, CDN_BUCKET, cache, st)

\* C19 as claimed: every failed request is answered with the status of its
\* cause: 401 or 403 for a rejected origin and an invalid, expired or
\* unauthorized token, 400 for a path error, 413 for a size error, 404 for
\* an absent object, 405 for a disallowed method, and 500 for a malformed
\* secret registry and for a failure of the store.
C19_RegistryFaultIs500 == [][ called => c19Taxonomy(500) ]_vars

\* C19, amended: as claimed, but an upload that cannot be verified because
\* the secret registry is unset or malformed is answered 401; 500 is given
\* only for a failure of the store.
C19_StatusByCause ==
  [][ called =>
        /\ c19Taxonomy(401)
        /\ (isUpload(request'[1]) /\ response'.status = 500)
             => response'.code = "UPLOAD_ERROR" ]_vars

\* Under a registry that is not JSON, an upload with a Bearer token has been
\* answered 401 UNAUTHORIZED
C19_Witness ==
  /\ request # <<>>
  /\ isUpload(request[1])
  /\ env.JWT_SECRETS.kind = "malformed"
  /\ request[1].Authorization = bearer(tokenWild)
  /\ response.status = 401
  /\ response.error = "Invalid JWT_SECRETS configuration"

\* ------------------------------------------------------------------------
\* C20: the population of the edge cache
\* ------------------------------------------------------------------------

\* This step is a call of fetch that answers a GET, not found in the edge
\* cache, with the object's 200
c20MissServed ==
  /\ called
  /\ request'[1].method = "GET"
  /\ isRead(request'[1])
  /\ request'[1].pathname \notin DOMAIN cache
  /\ response'.status = 200

\* C20: a call of fetch that answers a GET cache miss with 200 hands exactly
\* one cache.put, of that response under the request's URL, to waitUntil in
\* the step that returns the response; no other step hands one over (no
\* other request schedules a store, and a store that was lost is not tried
\* again); and the steps in which a pending cache.put succeeds or fails
\* leave the response, the request and the bucket as they are.
C20_CachePutFireAndForget ==
  [][ /\ c20MissServed
        => /\ [url |-> request'[1].pathname, response |-> response'] \in waitUntil'
           /\ waitUntil' = waitUntil \cup {[url |-> request'[1].pathname,
                                             response |-> response']}
           /\ response'.XCacheStatus = "MISS"
           /\ cache' = cache
      /\ (called /\ ~c20MissServed) => waitUntil' = waitUntil /\ cache' = cache
      /\ ~called
        => /\ waitUntil' \subseteq waitUntil
           /\ waitUntil' # waitUntil
                => /\ Cardinality(waitUntil \ waitUntil') = 1
                   /\ UNCHANGED <<request, response, put, CDN_BUCKET, handled>>
                   /\ \/ cache' = cache
                      \/ \E task \in waitUntil \ waitUntil' :
                           cache' = (task.url :> task.response) @@ cache ]_vars

\* A GET has been answered 200 from the bucket and is still being answered
\* while its cache.put has already failed: nothing is pending and the edge
\* cache does not hold the URL
C20_Witness ==
  /\ request # <<>>
  /\ request[1].method = "GET"
  /\ isRead(request[1])
  /\ response.status = 200
  /\ response.XCacheStatus = "MISS"
  /\ waitUntil = {}
  /\ request[1].pathname \notin DOMAIN cache

\* ------------------------------------------------------------------------
\* C21: reading what was uploaded
\* ------------------------------------------------------------------------

\* This step is a call of fetch on a permitted GET, without conditional
\* headers, of the URL of an object that an upload through the worker has
\* stored (the objects the bucket held before were stored in second 9), and
\* the bucket answers
c21ReadOfUploaded ==
  /\ called
  /\ request'[1].method = "GET"
  /\ isRead(request'[1])
  /\ request'[1].IfNoneMatch = <<>>
  /\ request'[1].IfModifiedSince = <<>>
  /\ isOriginAllowed(request'[1], readAllowlist(env))
  /\ slice(request'[1].pathname, 1) \in DOMAIN CDN_BUCKET
  /\ CDN_BUCKET[slice(request'[1].pathname, 1)].uploaded >= startMs
  /\ response'.status # 500

\* A successful upload reports the key it stored under, the number of bytes
\* it stored and the URL "/" + key
c21Reported ==
  (called /\ put' # <<>>) =>
    /\ response'.success
    /\ response'.key = put'[1].key
    /\ response'.size = put'[1].object.size
    /\ response'.size = Len(request'[1].body)
    /\ put'[1].object.body = request'[1].body
    /\ response'.url = <<"/">> \o put'[1].key
    /\ CDN_BUCKET'[put'[1].key] = put'[1].object

\* The response is the 200 of the object the bucket holds under the URL's key
c21Fresh ==
  LET object == CDN_BUCKET[slice(request'[1].pathname, 1)]
  IN  /\ response'.status = 200
      /\ response'.data = <<object.body>>
      /\ response'.ContentLength = object.size

\* C21 as claimed: after a successful upload that reports key k, size n and
\* url u, a permitted GET of u returns 200 for the object stored under k
\* with Content-Length n, in any state of the edge cache.
C21_ReadReturnsUploadInAnyCacheState ==
  [][ c21Reported /\ (c21ReadOfUploaded => c21Fresh) ]_vars

\* C21, amended: after a successful upload that reports key k, size n and
\* url u, a permitted GET of u returns 200 for the object stored under k
\* with Content-Length n when the edge cache holds no response for u; when
\* it holds one, the GET returns that cached response, marked HIT, whatever
\* the bucket holds now.
C21_ReadReturnsUploadOnMiss ==
  [][ /\ c21Reported
      /\ c21ReadOfUploaded =>
           IF request'[1].pathname \in DOMAIN cache
           THEN response' = [cache[request'[1].pathname]
                               EXCEPT !.XCacheStatus = "HIT"]
           ELSE c21Fresh /\ response'.XCacheStatus = "MISS" ]_vars

\* A GET of /b.png, uploaded anew through the worker with three bytes while
\* the edge cache held the response for the one byte stored before, has
\* been answered from the cache with Content-Length 1
C21_Witness ==
  /\ request # <<>>
  /\ request[1].method = "GET"
  /\ request[1].pathname = rdB
  /\ CDN_BUCKET[slice(rdB, 1)].uploaded >= startMs
  /\ CDN_BUCKET[slice(rdB, 1)].size = 3
  /\ response.status = 200
  /\ response.XCacheStatus = "HIT"
  /\ response.ContentLength = 1

\* A GET of the URL of a newly uploaded object, not in the edge cache, has
\* been answered 200 with the object
C21_WitnessMiss ==
  /\ request # <<>>
  /\ request[1].method = "GET"
  /\ isRead(request[1])
  /\ request[1].pathname # rdB
  /\ slice(request[1].pathname, 1) \in DOMAIN CDN_BUCKET
  /\ CDN_BUCKET[slice(request[1].pathname, 1)].uploaded >= startMs
  /\ response.status = 200
  /\ response.XCacheStatus = "MISS"
  /\ response.data = <<CDN_BUCKET[slice(request[1].pathname, 1)].body>>

\* ------------------------------------------------------------------------
\* C22: the cache lifetime of downloads
\* ------------------------------------------------------------------------

\* The max-age a cache directive of the worker grants, 0 for a header that
\* is not set
c22MaxAge(directive) ==
  CASE directive = "" -> 0
    [] directive = "public, max-age=3600" -> 3600
    [] directive = "public, max-age=86400" -> 86400
    [] directive = "public, max-age=31536000, immutable" -> 31536000

\* C22: a 200 answer to a read of a key containing "/downloads/" carries no
\* cache directive, neither Cache-Control nor CDN-Cache-Control, with a
\* max-age above the 3600 seconds of downloads, also when the key ends in
\* an image or font extension.
C22_DownloadsAtMostOneHour ==
  ( /\ request # <<>>
    /\ isRead(request[1])
    /\ includes(slice(request[1].pathname, 1), downloadsSegment)
    /\ response.status = 200 )
  => /\ c22MaxAge(response.CacheControl) <= 3600
     /\ c22MaxAge(response.CDNCacheControl) <= 3600

\* ------------------------------------------------------------------------
\* C23: what the edge cache stores
\* ------------------------------------------------------------------------

\* r, kept under url, is the full 200 response built on a cache miss for a
\* GET read: it carries content, is marked MISS and has the headers of a
\* full response
c23FullMiss(url, r) ==
  /\ url # healthPath
  /\ url # <<"/">>
  /\ ~startsWith(url, uploadPrefix)
  /\ r.status = 200
  /\ r.data # <<>>
  /\ r.XCacheStatus = "MISS"
  /\ r.ContentLength = Len(r.data[1])
  /\ r.body = ""
  /\ r.code = ""
  /\ ~r.success

\* C23: in every step, every response the edge cache holds, and every
\* response waiting to be stored, is a full 200 response built on a cache
\* miss for a GET read of an object the bucket held, under the URL of that
\* request; a response starts waiting only in the call of fetch that built
\* it so, and the cache changes only by storing a waiting response under its
\* URL.  HEAD reads, 304, 403, 404, 413 and 500 answers, liveness,
\* preflight and upload answers are never stored.
C23_CacheHoldsOnlyFullMisses ==
  [][ /\ \A url \in DOMAIN cache' : c23FullMiss(url, cache'[url])
      /\ \A task \in waitUntil' : c23FullMiss(task.url, task.response)
      /\ \A task \in waitUntil' \ waitUntil :
           /\ called
           /\ request'[1].method = "GET"
           /\ isRead(request'[1])
           /\ task.url = request'[1].pathname
           /\ task.url \notin DOMAIN cache
           /\ task.response = response'
           /\ slice(task.url, 1) \in DOMAIN CDN_BUCKET
           /\ task.response.data = <<CDN_BUCKET[slice(task.url, 1)].body>>
      /\ cache' # cache
           => \E task \in waitUntil :
                cache' = (task.url :> task.response) @@ cache ]_vars

\* The edge cache has stored the 200 of a GET, and a HEAD of another URL
\* has since been answered 200 from the bucket without anything stored or
\* waiting to be stored for it
C23_Witness ==
  /\ request # <<>>
  /\ request[1].method = "HEAD"
  /\ isRead(request[1])
  /\ response.status = 200
  /\ DOMAIN cache # {}
  /\ request[1].pathname \notin DOMAIN cache
  /\ waitUntil = {}

\* ------------------------------------------------------------------------
\* C24: Access-Control-Allow-Origin of read responses
\* ------------------------------------------------------------------------

\* C24: a read response that carries Access-Control-Allow-Origin carries
\* either "*" or the Origin of the request it answers, also when it is
\* served from the edge cache.
C24_AllowOriginIsTheRequestsOrigin ==
  ( /\ request # <<>>
    /\ isRead(request[1])
    /\ response.AccessControlAllowOrigin # <<>> )
  => \/ response.AccessControlAllowOrigin = << <<"*">> >>
     \/ response.AccessControlAllowOrigin = request[1].Origin

====
